---- MODULE Spec2Model ----
(***************************************************************************)
(* Model of galaxy/main/celerytasks/tasks.py: the role import pipeline     *)
(* (import_role), its helpers (fail_import_task, add_message,              *)
(* strip_input, decode_yaml_file, get_readme) and the periodic sweep       *)
(* (clear_stuck_imports).                                                  *)
(*                                                                         *)
(* Strings whose characters the code inspects (split, strip, slicing,      *)
(* regular expressions, "%s-%s" keys) are sequences of one-character       *)
(* strings.  A log text is a record [id, len]: the message template and    *)
(* the length of the formatted text, so that the [:255] slice is computed. *)
(***************************************************************************)
EXTENDS Integers, Sequences, FiniteSets, TLC

VARIABLES
    task,           \* ImportTask rows: id -> [state, created, started, finished]
    log,            \* ImportTask.messages: id -> sequence of [type, text]
    roleRow,        \* the Role row under import (fields written by role.save())
    roleTags,       \* role.tags: set of tag names
    rolePlatforms,  \* role.platforms: set of [name, release]
    roleDeps,       \* role.dependencies: set of [namespace, name]
    roleVersions,   \* RoleVersion rows of the role: set of [name, release_date]
    tagTable,       \* Tag rows: name -> number of rows of that name
    platformTable,  \* Platform rows: set of [name, release]
    roleTable,      \* the other Role rows: set of [namespace, name]
    namespaceTable, \* Namespace rows: set of [namespace, name, avatar_url, ...]
    run,            \* worker -> the local state of its import_role invocation
    sweep,          \* the clear_stuck_imports invocation: [pc, rows]
    now,            \* timezone.now(), in seconds
    index,          \* update_custom_indexes.delay calls, in dispatch order
    pool,           \* what the collaborators may answer: the set of scenarios
    budget,         \* import_role invocations still to be started
    hist            \* finished invocations, in order: [scn, how, tags, platforms, deps]

vars == <<task, log, roleRow, roleTags, rolePlatforms, roleDeps, roleVersions,
          tagTable, platformTable, roleTable, namespaceTable, run, sweep, now,
          index, pool, budget, hist>>

dbRole == <<roleRow, roleTags, rolePlatforms, roleDeps, roleVersions, tagTable>>
catalogue == <<platformTable, roleTable, namespaceTable>>

-----------------------------------------------------------------------------
(* Bounds of the model *)

\* import_role invocations started in one behaviour of Spec
MaxRuns == 2

\* clock ticks (of TickSeconds each) in one behaviour
MaxTicks == 1

\* length of str(exc) in a short and in a long exception text
ShortExc == 12

LongExc == 300

\* length of a user, repository, role or branch name in a message
NameLen == 5

\* clear_stuck_imports invocations in one behaviour
MaxSweeps == 1

-----------------------------------------------------------------------------
(* Program constants *)

\* message_text=msg[:255], message_text=msg_text[:255]
MaxMessageLen == 255

\* len(role.description) > 255
MaxDescriptionLen == 255

\* len(role.company) > 50, len(role.license) > 50
MaxCompanyLen == 50

MaxLicenseLen == 50

\* len(meta_tags) > 20
MaxTags == 20

\* datetime.timedelta(seconds=7200)
StuckSeconds == 7200

-----------------------------------------------------------------------------
(* Strings *)

NoTime == -1

Letters == <<"a","b","c","d","e","f","g","h","i","j","k","l","m",
             "n","o","p","q","r","s","t","u","v","w","x","y","z">>

Alnum == {Letters[i] : i \in 1..26} \cup {"A", "Z", "0", "1", "7", "9"}

Whitespace == {" ", "\n", "\t"}

Min(a, b) == IF a < b THEN a ELSE b

\* s[:n]
Take(s, n) == SubSeq(s, 1, Min(n, Len(s)))

\* s.strip()
Strip(s) ==
    LET keep == {i \in 1..Len(s) : s[i] \notin Whitespace}
    IN  IF keep = {} THEN <<>>
        ELSE LET lo == CHOOSE i \in keep : \A j \in keep : i <= j
                 hi == CHOOSE i \in keep : \A j \in keep : j <= i
             IN  SubSeq(s, lo, hi)

\* s.split(sep): the pieces of s between the occurrences of sep
RECURSIVE SplitFrom(_, _, _, _)
SplitFrom(s, sep, i, cur) ==
    IF i > Len(s) THEN <<cur>>
    ELSE IF s[i] = sep THEN <<cur>> \o SplitFrom(s, sep, i + 1, <<>>)
    ELSE SplitFrom(s, sep, i + 1, Append(cur, s[i]))

Split(s, sep) == SplitFrom(s, sep, 1, <<>>)

\* sep.join(parts)
RECURSIVE Join(_, _)
Join(parts, sep) ==
    IF Len(parts) = 0 THEN <<>>
    ELSE IF Len(parts) = 1 THEN parts[1]
    ELSE parts[1] \o <<sep>> \o Join(Tail(parts), sep)

\* re.match('^[a-zA-Z0-9]+$', t): one or more alphanumerics; "$" also
\* matches before a final newline
ReMatchAlnum(t) ==
    LET body == IF Len(t) > 0 /\ t[Len(t)] = "\n" THEN SubSeq(t, 1, Len(t) - 1) ELSE t
    IN  Len(body) > 0 /\ \A i \in 1..Len(body) : body[i] \in Alnum

\* the elements of a sequence
Range(s) == {s[i] : i \in 1..Len(s)}

\* the concatenation of a sequence of sequences
RECURSIVE Flatten(_)
Flatten(ss) == IF Len(ss) = 0 THEN <<>> ELSE ss[1] \o Flatten(Tail(ss))

-----------------------------------------------------------------------------
(* Diagnostic messages *)

\* the length of each message template without its format arguments
LitLen(id) ==
    CASE id = "failed_get_task" -> 23
      [] id = "failed_get_role" -> 32
      [] id = "starting_import" -> 34
      [] id = "failed_github_account" -> 87
      [] id = "failed_github_api" -> 114
      [] id = "failed_github_user" -> 37
      [] id = "retrieving_repo" -> 23
      [] id = "no_repo_access" -> 42
      [] id = "accessing_branch" -> 18
      [] id = "parsing_meta" -> 36
      [] id = "failed_find" -> 18
      [] id = "failed_decode" -> 20
      [] id = "yaml_parse_error" -> 18
      [] id = "failed_parse" -> 36
      [] id = "no_galaxy_info" -> 42
      [] id = "setting_role_name" -> 21
      [] id = "two_container_yml" -> 101
      [] id = "found_meta_container" -> 24
      [] id = "type_container" -> 30
      [] id = "found_ansible_container" -> 27
      [] id = "type_container_app" -> 34
      [] id = "company_too_long" -> 61
      [] id = "missing_description" -> 71
      [] id = "description_too_long" -> 66
      [] id = "license_missing" -> 50
      [] id = "license_too_long" -> 61
      [] id = "min_version_default" -> 77
      [] id = "no_issue_tracker" -> 121
      [] id = "invalid_issue_url" -> 71
      [] id = "parsing_tags" -> 19
      [] id = "found_categories" -> 82
      [] id = "categories_not_list" -> 65
      [] id = "invalid_category" -> 19
      [] id = "tags_not_list" -> 66
      [] id = "invalid_tag" -> 32
      [] id = "no_tags" -> 98
      [] id = "too_many_tags" -> 103
      [] id = "parsing_platforms" -> 17
      [] id = "platforms_missing" -> 77
      [] id = "platforms_not_list" -> 93
      [] id = "platform_not_dict" -> 60
      [] id = "platform_no_name" -> 40
      [] id = "platform_bad_versions" -> 41
      [] id = "invalid_platform" -> 30
      [] id = "adding_dependencies" -> 19
      [] id = "dependencies_missing" -> 97
      [] id = "dependencies_not_list" -> 95
      [] id = "invalid_dependency" -> 46
      [] id = "dependency_not_found_ns" -> 44
      [] id = "dependency_not_found" -> 27
      [] id = "parsing_readme" -> 29
      [] id = "readme_html_failed" -> 38
      [] id = "readme_failed" -> 66
      [] id = "readme_type_unknown" -> 86
      [] id = "adding_versions" -> 33
      [] id = "versions_error" -> 45
      [] id = "validate_char_lengths" -> 0
      [] id = "import_completed" -> 16
      [] id = "status" -> 27
      [] id = "error_saving_role" -> 19
      [] id = "import_timed_out" -> 127

\* a formatted message: the template and the length of the text, the
\* arguments taking arglen characters
Text(id, arglen) == [id |-> id, len |-> LitLen(id) + arglen]

\* a slice that keeps the whole text
Truncate_whole(text) == text

\* text[:255]
Truncate(text) == [text EXCEPT !.len = Min(text.len, MaxMessageLen)]

\* add_message(import_task, msg_type, msg_text): the entry it stores
Entry(type, id, arglen) == [type |-> type, text |-> Truncate(Text(id, arglen))]

\* a count that takes every entry but the INFO ones
RECURSIVE CountType_NotInfo(_, _)
CountType_NotInfo(entries, type) ==
    IF Len(entries) = 0 THEN 0
    ELSE (IF entries[1].type # "INFO" THEN 1 ELSE 0) + CountType_NotInfo(Tail(entries), type)

\* import_task.messages.filter(message_type=type).count()
RECURSIVE CountType(_, _)
CountType(entries, type) ==
    IF Len(entries) = 0 THEN 0
    ELSE (IF entries[1].type = type THEN 1 ELSE 0) + CountType(Tail(entries), type)

\* the entries of a log made from one template
RECURSIVE CountId(_, _)
CountId(entries, id) ==
    IF Len(entries) = 0 THEN 0
    ELSE (IF entries[1].text.id = id THEN 1 ELSE 0) + CountId(Tail(entries), id)

-----------------------------------------------------------------------------
(* Values of the manifest: a YAML value is [kind, val] with kind one of     *)
(* "absent" (no such key), "none", "str", "int", "list", "dict"             *)

Absent == [kind |-> "absent", val |-> <<>>]
None == [kind |-> "none", val |-> <<>>]
Str(s) == [kind |-> "str", val |-> s]
Number(n) == [kind |-> "int", num |-> n]
List(l) == [kind |-> "list", items |-> l]

\* d.get(key, default)
Get(v, default) == IF v.kind = "absent" THEN default ELSE v

\* Python truth of a value
Truthy(v) ==
    CASE v.kind \in {"absent", "none"} -> FALSE
      [] v.kind = "int" -> v.num # 0
      [] v.kind = "list" -> v.items # <<>>
      [] OTHER -> v.val # <<>>

\* isinstance(v, basestring) or not hasattr(v, '__iter__')
NotIterable(v) == v.kind \in {"str", "int"}

strip_input(input) ==
    IF input.kind = "none" THEN Str(<<>>)
    ELSE IF input.kind = "str" THEN Str(Strip(input.val))
    ELSE input

-----------------------------------------------------------------------------
(* import_role, lines 299-361: the fields of the role taken from the        *)
(* manifest.  A stage is computed on an accumulator                         *)
(*   [role, msgs, end, abort]                                               *)
(* role: the in-memory Role; msgs: the add_message calls made so far; end:  *)
(* "" while the stage goes on, "abort" after fail_import_task (abort is its *)
(* message), "crash" after an exception nothing catches.                    *)

Going(acc) == acc.end = ""

Say(acc, type, id, arglen) == [acc EXCEPT !.msgs = Append(@, Entry(type, id, arglen))]

Abort(acc, id, arglen) == [acc EXCEPT !.end = "abort", !.abort = Text(id, arglen)]

Crash(acc) == [acc EXCEPT !.end = "crash"]

EmptyStr(v) == v.kind = "str" /\ v.val = <<>>

\* len(v) raises TypeError for a number
HasLen(v) == v.kind \in {"str", "list"}

\* len(v) and v[:n] of a string or a list
Size(v) == IF v.kind = "list" THEN Len(v.items) ELSE Len(v.val)

Cut(v, n) == IF v.kind = "list" THEN List(Take(v.items, n)) ELSE Str(Take(v.val, n))

\* lines 299-310
AssignFields(acc, scn) ==
    LET a == IF scn.altName THEN Say(acc, "INFO", "setting_role_name", scn.nameLen) ELSE acc
    IN  [a EXCEPT !.role.description = strip_input(Get(scn.description, scn.repoDescription)),
                  !.role.company = strip_input(Get(scn.company, Str(<<>>))),
                  !.role.license = strip_input(Get(scn.license, Str(<<>>))),
                  !.role.min_ansible_version = strip_input(Get(scn.min_ansible_version, Str(<<>>))),
                  !.role.issue_tracker_url = strip_input(Get(scn.issue_tracker_url, Str(<<>>)))]

\* a decode_yaml_file that does not log the YAML parse error
decode_yaml_file_quiet(acc, outcome, content, nameLen, excLen, required) ==
    IF ~Going(acc) THEN acc
    ELSE CASE outcome = "fetch" ->
                IF required THEN Abort(acc, "failed_find", nameLen + excLen)
                ELSE [acc EXCEPT !.file = None]
           [] outcome = "b64" -> Abort(acc, "failed_decode", nameLen + excLen)
           [] outcome = "yaml" -> Abort(acc, "failed_parse", nameLen)
           [] outcome = "empty" -> [acc EXCEPT !.file = None]
           [] OTHER -> [acc EXCEPT !.file = content]

\* decode_yaml_file(import_task, repo, branch, file_name, required), lines
\* 204-223.  outcome is what the repository host and the decoders do with
\* the file: "fetch" (get_file_contents raises), "b64" (the base64 decode
\* raises), "yaml" (yaml.safe_load raises YAMLError), "empty" (the document
\* is empty: safe_load returns None), "ok".  The result is acc with field
\* file set to the decoded value.
decode_yaml_file(acc, outcome, content, nameLen, excLen, required) ==
    IF ~Going(acc) THEN acc
    ELSE CASE outcome = "fetch" ->
                IF required THEN Abort(acc, "failed_find", nameLen + excLen)
                ELSE [acc EXCEPT !.file = None]
           [] outcome = "b64" -> Abort(acc, "failed_decode", nameLen + excLen)
           [] outcome = "yaml" ->
                Abort(Say(acc, "ERROR", "yaml_parse_error", excLen), "failed_parse", nameLen)
           [] outcome = "empty" -> [acc EXCEPT !.file = None]
           [] OTHER -> [acc EXCEPT !.file = content]

\* len("meta/container.yml"), len("ansible/container.yml"), len("meta/main.yml")
MetaContainerLen == 18

AnsibleContainerLen == 21

MetaMainLen == 13

\* a detection that takes meta/container.yml when both files are found
ContainerKind_meta(acc, scn) ==
    LET a1 == decode_yaml_file(acc, scn.container, Str(<<"m">>), MetaContainerLen,
                               scn.excLen, FALSE)
        a2 == decode_yaml_file(a1, scn.ansibleContainer, Str(<<"a">>), AnsibleContainerLen,
                               scn.excLen, FALSE)
    IN  IF ~Going(a2) THEN a2
        ELSE IF Truthy(a1.file)
             THEN [Say(Say(a2, "INFO", "found_meta_container", 0), "INFO", "type_container", 0)
                     EXCEPT !.role.role_type = "CON", !.role.container_yml = a1.file]
        ELSE IF Truthy(a2.file)
             THEN [Say(Say(a2, "INFO", "found_ansible_container", 0),
                       "INFO", "type_container_app", 0)
                     EXCEPT !.role.role_type = "APP", !.role.container_yml = a2.file]
        ELSE a2

\* lines 312-327
ContainerKind(acc, scn) ==
    LET a1 == decode_yaml_file(acc, scn.container, Str(<<"m">>), MetaContainerLen,
                               scn.excLen, FALSE)
        a2 == decode_yaml_file(a1, scn.ansibleContainer, Str(<<"a">>), AnsibleContainerLen,
                               scn.excLen, FALSE)
        container_yml == a1.file
        ansible_container_yml == a2.file
    IN  IF ~Going(a2) THEN a2
        ELSE IF Truthy(container_yml) /\ Truthy(ansible_container_yml)
             THEN Say(a2, "ERROR", "two_container_yml", 0)
        ELSE IF Truthy(container_yml)
             THEN [Say(Say(a2, "INFO", "found_meta_container", 0), "INFO", "type_container", 0)
                     EXCEPT !.role.role_type = "CON", !.role.container_yml = container_yml]
        ELSE IF Truthy(ansible_container_yml)
             THEN [Say(Say(a2, "INFO", "found_ansible_container", 0),
                       "INFO", "type_container_app", 0)
                     EXCEPT !.role.role_type = "APP", !.role.container_yml = ansible_container_yml]
        ELSE a2

\* repo.html_url + '/issues', as urlparse splits it
RepoIssuesUrl == [scheme |-> <<"h">>, netloc |-> <<"g">>, path |-> <<"/", "i">>]

\* lines 329-330
DefaultIssueTracker(acc, scn) ==
    IF ~Going(acc) THEN acc
    ELSE IF EmptyStr(acc.role.issue_tracker_url) /\ scn.has_issues
         THEN [acc EXCEPT !.role.issue_tracker_url = [kind |-> "url", url |-> RepoIssuesUrl]]
    ELSE acc

\* lines 332-334
CheckCompany(acc) ==
    IF ~Going(acc) THEN acc
    ELSE LET v == acc.role.company
         IN  IF EmptyStr(v) THEN acc
             ELSE IF ~HasLen(v) THEN Crash(acc)
             ELSE IF Size(v) > MaxCompanyLen
                  THEN [Say(acc, "WARNING", "company_too_long", 0)
                          EXCEPT !.role.company = Cut(v, MaxCompanyLen)]
             ELSE acc

\* lines 336-340
CheckDescription(acc) ==
    IF ~Going(acc) THEN acc
    ELSE LET v == acc.role.description
         IN  IF EmptyStr(v) THEN Say(acc, "ERROR", "missing_description", 0)
             ELSE IF ~HasLen(v) THEN Crash(acc)
             ELSE IF Size(v) > MaxDescriptionLen
                  THEN [Say(acc, "WARNING", "description_too_long", 0)
                          EXCEPT !.role.description = Cut(v, MaxDescriptionLen)]
             ELSE acc

\* a license check that cuts one character late
CheckLicense_late(acc) ==
    IF ~Going(acc) THEN acc
    ELSE LET v == acc.role.license
         IN  IF EmptyStr(v) THEN Say(acc, "ERROR", "license_missing", 0)
             ELSE IF ~HasLen(v) THEN Crash(acc)
             ELSE IF Size(v) > MaxLicenseLen + 1
                  THEN [Say(acc, "WARNING", "license_too_long", 0)
                          EXCEPT !.role.license = Cut(v, MaxLicenseLen)]
             ELSE acc

\* lines 342-346
CheckLicense(acc) ==
    IF ~Going(acc) THEN acc
    ELSE LET v == acc.role.license
         IN  IF EmptyStr(v) THEN Say(acc, "ERROR", "license_missing", 0)
             ELSE IF ~HasLen(v) THEN Crash(acc)
             ELSE IF Size(v) > MaxLicenseLen
                  THEN [Say(acc, "WARNING", "license_too_long", 0)
                          EXCEPT !.role.license = Cut(v, MaxLicenseLen)]
             ELSE acc

\* u'1.9'
DefaultMinVersion == Str(<<"1", ".", "9">>)

\* lines 348-351
CheckMinVersion(acc) ==
    IF ~Going(acc) THEN acc
    ELSE IF EmptyStr(acc.role.min_ansible_version)
         THEN [Say(acc, "WARNING", "min_version_default", 0)
                 EXCEPT !.role.min_ansible_version = DefaultMinVersion]
    ELSE acc

\* lines 353-361; a url value is what urlparse makes of the text:
\* [scheme, netloc, path]; urlparse raises on a number
CheckIssueTracker(acc) ==
    IF ~Going(acc) THEN acc
    ELSE LET v == acc.role.issue_tracker_url
         IN  IF EmptyStr(v) THEN Say(acc, "WARNING", "no_issue_tracker", 0)
             ELSE IF v.kind # "url" THEN Crash(acc)
             ELSE IF v.url.scheme = <<>> \/ v.url.netloc = <<>> \/ v.url.path = <<>>
                  THEN [Say(acc, "WARNING", "invalid_issue_url", 0)
                          EXCEPT !.role.issue_tracker_url = Str(<<>>)]
             ELSE acc

\* the result of one more group of statements, for each accumulator of a set
Then(accs, Statements(_)) == {Statements(a) : a \in accs}

\* lines 299-361, one group of statements after the other
ValidateFields(acc, scn) ==
    LET assigned == {AssignFields(acc, scn)}
        kind == Then(assigned, LAMBDA a : ContainerKind(a, scn))
        tracker == Then(kind, LAMBDA a : DefaultIssueTracker(a, scn))
        company == Then(tracker, CheckCompany)
        description == Then(company, CheckDescription)
        license == Then(description, CheckLicense)
        version == Then(license, CheckMinVersion)
    IN  CHOOSE a \in Then(version, CheckIssueTracker) : TRUE

-----------------------------------------------------------------------------
(* import_role, lines 389-445: tags *)

\* lines 399-404 and 411-416: the tokens of the entries of one key, in
\* order; a token the pattern rejects is reported and dropped
RECURSIVE ScanTokens(_, _, _)
ScanTokens(acc, tokens, warning) ==
    IF Len(tokens) = 0 THEN acc
    ELSE LET t == tokens[1]
             a == IF ReMatchAlnum(t)
                  THEN [acc EXCEPT !.meta_tags = Append(@, t)]
                  ELSE Say(acc, "WARNING", warning, Len(t))
         IN  ScanTokens(a, Tail(tokens), warning)

\* for tag in tags: for t in tag.split(':')
TokensOf(entries) == Flatten([i \in 1..Len(entries) |-> Split(entries[i], ":")])

\* lines 392-404 (categories) and 406-416 (galaxy_tags)
ScanKey(acc, v, notList, warning) ==
    IF ~Truthy(v) THEN acc
    ELSE IF NotIterable(v) THEN Say(acc, "ERROR", notList, 0)
    ELSE ScanTokens(acc, TokensOf(v.items), warning)

\* a meta_tags that reports no missing tags
MetaTags_silent(acc, scn) ==
    LET a0 == [Say(acc, "INFO", "parsing_tags", 0) EXCEPT !.meta_tags = <<>>]
        a1 == IF Truthy(scn.categories)
              THEN ScanKey(Say(a0, "WARNING", "found_categories", 0), scn.categories,
                           "categories_not_list", "invalid_category")
              ELSE a0
        a2 == ScanKey(a1, scn.galaxy_tags, "tags_not_list", "invalid_tag")
    IN  IF Len(a2.meta_tags) > MaxTags
        THEN [Say(a2, "WARNING", "too_many_tags", 0) EXCEPT !.meta_tags = Take(@, MaxTags)]
        ELSE a2

\* a meta_tags cut one entry late
MetaTags_cap21(acc, scn) ==
    LET a0 == [Say(acc, "INFO", "parsing_tags", 0) EXCEPT !.meta_tags = <<>>]
        a1 == IF Truthy(scn.categories)
              THEN ScanKey(Say(a0, "WARNING", "found_categories", 0), scn.categories,
                           "categories_not_list", "invalid_category")
              ELSE a0
        a2 == ScanKey(a1, scn.galaxy_tags, "tags_not_list", "invalid_tag")
        a3 == IF Len(a2.meta_tags) = 0 THEN Say(a2, "ERROR", "no_tags", 0) ELSE a2
    IN  IF Len(a3.meta_tags) > MaxTags
        THEN [Say(a3, "WARNING", "too_many_tags", 0) EXCEPT !.meta_tags = Take(@, MaxTags + 1)]
        ELSE a3

\* lines 389-430: meta_tags, as the list the reconciliation uses
MetaTags(acc, scn) ==
    LET a0 == [Say(acc, "INFO", "parsing_tags", 0) EXCEPT !.meta_tags = <<>>]
        a1 == IF Truthy(scn.categories)
              THEN ScanKey(Say(a0, "WARNING", "found_categories", 0), scn.categories,
                           "categories_not_list", "invalid_category")
              ELSE a0
        a2 == ScanKey(a1, scn.galaxy_tags, "tags_not_list", "invalid_tag")
        a3 == IF Len(a2.meta_tags) = 0 THEN Say(a2, "ERROR", "no_tags", 0) ELSE a2
    IN  IF Len(a3.meta_tags) > MaxTags
        THEN [Say(a3, "WARNING", "too_many_tags", 0) EXCEPT !.meta_tags = Take(@, MaxTags)]
        ELSE a3

\* line 430, list(set(meta_tags)): the tags the loop of line 432 goes
\* through, each once
RECURSIVE Distinct(_)
Distinct(seq) ==
    IF Len(seq) = 0 THEN <<>>
    ELSE <<seq[1]>> \o Distinct(SelectSeq(Tail(seq), LAMBDA x : x # seq[1]))

\* Tag rows, one for each of the names
TagRows(names) == [n \in names |-> 1]

\* line 433, Tag.objects.filter(name=tag): whether a row is returned
TagFound(table, name) == name \in DOMAIN table

\* a Tag table that takes a second row of a name
TagInsert_again(table, name) ==
    [ok |-> TRUE,
     table |-> IF name \in DOMAIN table THEN [table EXCEPT ![name] = @ + 1]
               ELSE table @@ (name :> 1)]

\* lines 435-436, Tag(name=tag, ...).save(): Tag rows are shared by name,
\* the table holds one row of a name and the save of a second one raises
TagInsert(table, name) ==
    IF name \in DOMAIN table THEN [ok |-> FALSE, table |-> table]
    ELSE [ok |-> TRUE, table |-> table @@ (name :> 1)]

\* an addition that takes a tag already on the role off it
AddTags_toggle(tags, meta_tags) ==
    (tags \ Range(meta_tags)) \cup {t \in Range(meta_tags) : t \notin tags}

\* lines 432-440: role.tags after the additions
AddTags(tags, meta_tags) == tags \cup {t \in Range(meta_tags) : t \notin tags}

\* lines 442-445: role.tags after the removals
RemoveTags(tags, meta_tags) == {t \in tags : t \in Range(meta_tags)}

-----------------------------------------------------------------------------
(* import_role, lines 447-499: platforms *)

All == <<"a", "l", "l">>

\* "%s-%s" % (name, release)
PlatformKey(name, release) == name \o <<"-">> \o release

\* Platform.objects.filter(name=name)
PlatformsNamed(table, name) == {p \in table : p.name = name}

\* listed versions of which none is added when one has no row
AddVersions_whole(acc, table, name, versions) ==
    LET missing == {i \in 1..Len(versions) : [name |-> name, release |-> versions[i]] \notin table}
    IN  IF missing = {}
        THEN [acc EXCEPT !.platforms = @ \cup {[name |-> name, release |-> versions[i]] :
                                                   i \in 1..Len(versions)},
                         !.platform_list = @ \cup {PlatformKey(name, versions[i]) :
                                                       i \in 1..Len(versions)}]
        ELSE Say(acc, "ERROR", "invalid_platform", Len(name))

\* lines 485-491: the listed versions of one platform
RECURSIVE AddVersions(_, _, _, _)
AddVersions(acc, table, name, versions) ==
    IF Len(versions) = 0 THEN acc
    ELSE LET p == [name |-> name, release |-> versions[1]]
             a == IF p \in table
                  THEN [acc EXCEPT !.platforms = @ \cup {p},
                                   !.platform_list = @ \cup {PlatformKey(name, p.release)}]
                  ELSE Say(acc, "ERROR", "invalid_platform", Len(name) + Len(versions[1]))
         IN  AddVersions(a, table, name, Tail(versions))

\* lines 459-493: one entry of the list
AddPlatform(acc, table, entry) ==
    IF entry.kind # "dict" THEN Say(acc, "ERROR", "platform_not_dict", 1)
    ELSE LET name == Get(entry.name, None)
             versions == Get(entry.versions, List(<<All>>))
         IN  IF ~Truthy(name) THEN Say(acc, "ERROR", "platform_no_name", 0)
             ELSE IF versions.kind # "list"
                  THEN Say(acc, "ERROR", "platform_bad_versions", Len(name.val))
             ELSE IF All \in Range(versions.items)
                  THEN LET rows == PlatformsNamed(table, name.val)
                       IN  [acc EXCEPT !.platforms = @ \cup rows,
                                       !.platform_list =
                                           @ \cup {PlatformKey(name.val, p.release) : p \in rows}]
             ELSE AddVersions(acc, table, name.val, versions.items)

RECURSIVE AddPlatforms(_, _, _)
AddPlatforms(acc, table, entries) ==
    IF Len(entries) = 0 THEN acc
    ELSE AddPlatforms(AddPlatform(acc, table, entries[1]), table, Tail(entries))

\* lines 495-499: role.platforms after the removals
RemovePlatforms(platforms, platform_list) ==
    {p \in platforms : PlatformKey(p.name, p.release) \in platform_list}

\* a platforms stage that runs the removals also when the key is no list
Platforms_sweep(acc, scn, table) ==
    LET a == Say(acc, "INFO", "parsing_platforms", 0)
        meta_platforms == Get(scn.platforms, None)
    IN  IF meta_platforms.kind = "none"
        THEN [Say(a, "ERROR", "platforms_missing", 0) EXCEPT !.platforms = {}]
        ELSE IF NotIterable(meta_platforms)
        THEN [Say(a, "ERROR", "platforms_not_list", 0) EXCEPT !.platforms = {}]
        ELSE LET b == AddPlatforms([a EXCEPT !.platform_list = {}], table, meta_platforms.items)
             IN  [b EXCEPT !.platforms = RemovePlatforms(@, b.platform_list)]

\* lines 447-499; acc.platforms is role.platforms
Platforms(acc, scn, table) ==
    LET a == Say(acc, "INFO", "parsing_platforms", 0)
        meta_platforms == Get(scn.platforms, None)
    IN  IF meta_platforms.kind = "none" THEN Say(a, "ERROR", "platforms_missing", 0)
        ELSE IF NotIterable(meta_platforms) THEN Say(a, "ERROR", "platforms_not_list", 0)
        ELSE LET b == AddPlatforms([a EXCEPT !.platform_list = {}], table, meta_platforms.items)
             IN  [b EXCEPT !.platforms = RemovePlatforms(@, b.platform_list)]

-----------------------------------------------------------------------------
(* import_role, lines 501-555: dependencies *)

\* Role.__unicode__: "%s.%s" % (namespace, name)
RoleUnicode(r) == r.namespace \o <<".">> \o r.name

\* a namespace that is the first segment alone
DepNamespace_first(names) == names[1]

\* lines 530-534 and 545: the namespace and the name a split dependency is
\* looked up by
DepNamespace(names) ==
    IF Len(names) > 2 THEN Join(SubSeq(names, 1, Len(names) - 1), ".") ELSE names[1]

DepName(names) == IF Len(names) > 2 THEN names[Len(names)] ELSE names[2]

\* lines 515-529: the names of one entry, <<>> when the entry is rejected
\* before it is split; ok is FALSE when the try block raised
DepSplit(dep) ==
    IF dep.kind = "dict" /\ dep.role.kind = "absent" THEN [ok |-> FALSE, names |-> <<>>, text |-> <<>>]
    ELSE LET d == IF dep.kind = "dict" THEN dep.role ELSE dep
         IN  IF d.kind # "str" THEN [ok |-> FALSE, names |-> <<>>, text |-> <<>>]
             ELSE LET names == Split(d.val, ".")
                  IN  [ok |-> Len(names) >= 2, names |-> names, text |-> d.val]

\* Role.objects.get(namespace=namespace, name=name): TRUE when it returns a
\* row; fails holds the dependencies whose lookup raises
RoleFound(table, fails, text, namespace, name) ==
    [namespace |-> namespace, name |-> name] \in table /\ text \notin fails

\* lines 513-549: one entry of the list
AddDependency(acc, table, fails, dep) ==
    LET sp == DepSplit(dep)
        names == sp.names
        a == IF sp.ok THEN acc ELSE Say(acc, "ERROR", "invalid_dependency", Len(sp.text) + ShortExc)
    IN  IF Len(names) < 2 THEN Say(a, "ERROR", "dependency_not_found", Len(sp.text))
        ELSE IF RoleFound(table, fails, sp.text, DepNamespace(names), DepName(names))
             THEN [a EXCEPT !.deps = @ \cup {[namespace |-> DepNamespace(names),
                                              name |-> DepName(names)]},
                            !.dep_names = @ \cup {sp.text}]
        ELSE IF Len(names) > 2
             THEN Say(a, "ERROR", "dependency_not_found_ns", Len(sp.text) - 1)
        ELSE Say(a, "ERROR", "dependency_not_found", Len(sp.text))

RECURSIVE AddDependencies(_, _, _, _)
AddDependencies(acc, table, fails, entries) ==
    IF Len(entries) = 0 THEN acc
    ELSE AddDependencies(AddDependency(acc, table, fails, entries[1]), table, fails,
                         Tail(entries))

\* lines 551-555: role.dependencies after the removals
RemoveDependencies(deps, dep_names) == {d \in deps : RoleUnicode(d) \in dep_names}

\* lines 501-555; acc.deps is role.dependencies
Dependencies(acc, scn, table) ==
    LET a == Say(acc, "INFO", "adding_dependencies", 0)
        dependencies == Get(scn.dependencies, None)
    IN  IF dependencies.kind = "none" THEN Say(a, "ERROR", "dependencies_missing", 0)
        ELSE IF NotIterable(dependencies) THEN Say(a, "ERROR", "dependencies_not_list", 0)
        ELSE LET b == AddDependencies([a EXCEPT !.dep_names = {}], table, scn.lookupFails,
                                      dependencies.items)
             IN  [b EXCEPT !.deps = RemoveDependencies(@, b.dep_names)]

-----------------------------------------------------------------------------
(* get_readme, lines 159-201, and the role versions, lines 559-583 *)

\* html: whether the rendered README is fetched; readme: "none" when
\* repo.get_readme raises, else "md", "rst" or "other" by its file name
get_readme(acc, scn) ==
    LET a0 == Say(acc, "INFO", "parsing_readme", 0)
        a1 == IF scn.readmeHtml THEN a0 ELSE Say(a0, "ERROR", "readme_html_failed", scn.excLen)
        a2 == IF scn.readme = "none" THEN Say(a1, "ERROR", "readme_failed", 0) ELSE a1
        a3 == IF scn.readme = "other" THEN Say(a2, "ERROR", "readme_type_unknown", 0) ELSE a2
    IN  [a3 EXCEPT !.role.readme_type =
                       IF scn.readme \in {"md", "rst"} THEN scn.readme ELSE "None"]

\* an add_role_version that leaves only the version of this tag
add_role_version_only(versions, tag) == {[name |-> tag.name, release_date |-> tag.date]}

\* add_role_version(tag), lines 560-563
add_role_version(versions, tag) ==
    {v \in versions : v.name # tag.name} \cup {[name |-> tag.name, release_date |-> tag.date]}

RECURSIVE AddRoleVersions(_, _)
AddRoleVersions(versions, tags) ==
    IF Len(tags) = 0 THEN versions
    ELSE AddRoleVersions(add_role_version(versions, tags[1]), Tail(tags))

\* lines 565-573; gitTagsRead is how many tags the loop handles before the
\* tag listing raises, when gitTagsRaise
RoleVersions(acc, scn) ==
    LET a == Say(acc, "INFO", "adding_versions", 0)
        n == IF scn.gitTagsRaise THEN Min(scn.gitTagsRead, Len(scn.gitTags)) ELSE Len(scn.gitTags)
        b == [a EXCEPT !.versions = AddRoleVersions(@, SubSeq(scn.gitTags, 1, n))]
    IN  IF scn.gitTagsRaise THEN Say(b, "ERROR", "versions_error", scn.excLen) ELSE b

\* lines 575-583
ValidateCharLengths(acc, scn) ==
    LET a == IF scn.roleTooLong THEN Say(acc, "ERROR", "validate_char_lengths", scn.excLen)
             ELSE acc
    IN  IF scn.taskTooLong THEN Say(a, "ERROR", "validate_char_lengths", scn.excLen) ELSE a

-----------------------------------------------------------------------------
(* fail_import_task and the end of the run *)

\* a fail_import_task that stores msg whole
fail_import_task_whole(import_task, msg, fails, time) ==
    CASE fails = "create" -> [saved |-> FALSE, row |-> import_task, entries |-> <<>>]
      [] fails = "save" -> [saved |-> FALSE, row |-> import_task,
                            entries |-> <<[type |-> "ERROR", text |-> msg]>>]
      [] OTHER -> [saved |-> TRUE,
                   row |-> [import_task EXCEPT !.state = "FAILED", !.finished = time],
                   entries |-> <<[type |-> "ERROR", text |-> msg]>>]

\* fail_import_task(import_task, msg), lines 116-132: what it stores.
\* import_role runs outside any transaction.atomic block, so each statement
\* is committed as it is executed and the rollback of line 129 undoes
\* nothing.  fails: "create" when messages.create raises (line 124), "save"
\* when import_task.save raises after the entry is stored (line 126), "no"
\* otherwise.
fail_import_task(import_task, msg, fails, time) ==
    CASE fails = "create" -> [saved |-> FALSE, row |-> import_task, entries |-> <<>>]
      [] fails = "save" -> [saved |-> FALSE, row |-> import_task,
                            entries |-> <<[type |-> "ERROR", text |-> Truncate(msg)]>>]
      [] OTHER -> [saved |-> TRUE,
                   row |-> [import_task EXCEPT !.state = "FAILED", !.finished = time],
                   entries |-> <<[type |-> "ERROR", text |-> Truncate(msg)]>>]

\* which statement of fail_import_task raises in a scenario
AbortFault(scn) ==
    IF ~scn.abortFails THEN "no" ELSE IF scn.abortEntry THEN "save" ELSE "create"

\* line 588
ImportState(error_count) == IF error_count = 0 THEN "SUCCESS" ELSE "FAILED"

-----------------------------------------------------------------------------
(* The state machine *)

\* the celery workers that run import_role
NumWorkers == 2

Workers == 1..NumWorkers

\* the ImportTask rows; id 0 is the id of no row
NumTasks == 2

TaskIds == 1..NumTasks

NoTask == 0

\* one tick of the clock: an hour
TickSeconds == StuckSeconds \div 2

\* the local state of an invocation: it and role are the in-memory
\* import_task and role; how is "done", "abort" (fail_import_task raised) or
\* "crash" (another exception) once pc = "end"; tag is the position of the
\* loop of line 432 and found what its lookup returned; abort is the msg given to
\* fail_import_task; trail lists the stages that ran and before holds the
\* associations of the role when the invocation started
Idle == [pc |-> "idle", tid |-> NoTask, scn |-> <<>>, it |-> <<>>, role |-> <<>>,
         meta_tags |-> <<>>, tag |-> 1, found |-> FALSE,
         error_count |-> 0, import_state |-> "", how |-> "",
         abort |-> <<>>, trail |-> <<>>, before |-> <<>>]

Associations == [tags |-> roleTags, platforms |-> rolePlatforms, deps |-> roleDeps,
                 row |-> roleRow]

\* the accumulator of a stage of worker w
Acc(w) == [role |-> run[w].role, msgs |-> <<>>, end |-> "", abort |-> Text("status", 0),
           file |-> None, meta_tags |-> run[w].meta_tags,
           error_count |-> run[w].error_count, import_state |-> run[w].import_state,
           platforms |-> rolePlatforms, platform_list |-> {},
           deps |-> roleDeps, dep_names |-> {}, versions |-> roleVersions]

Active(w) == run[w].pc \notin {"idle", "end"}

\* what a finished invocation leaves in hist
Record(w, how) == [scn |-> run[w].scn, tid |-> run[w].tid, how |-> how,
                   tags |-> roleTags', platforms |-> rolePlatforms', deps |-> roleDeps']

\* add_message, lines 148-156, for every message of a stage, then the end
\* of the stage: the next stage, fail_import_task, or an uncaught exception.
\* add_message saves the in-memory import task with each message.
Conclude(w, stage, acc, next) ==
    LET r == run[w]
        t == r.tid
        said == acc.msgs # <<>>
        f == fail_import_task(r.it, acc.abort, AbortFault(r.scn), now)
    IN  CASE acc.end = "abort" ->
              /\ log' = [log EXCEPT ![t] = @ \o acc.msgs \o f.entries]
              /\ task' = IF f.saved \/ said THEN [task EXCEPT ![t] = f.row] ELSE task
              /\ run' = [run EXCEPT ![w] = [r EXCEPT !.pc = "end", !.how = "abort",
                                                     !.abort = acc.abort,
                                                     !.it = f.row, !.role = acc.role,
                                                     !.trail = Append(@, stage)]]
              /\ hist' = Append(hist, Record(w, "abort"))
          [] acc.end = "crash" ->
              /\ log' = [log EXCEPT ![t] = @ \o acc.msgs]
              /\ task' = IF said THEN [task EXCEPT ![t] = r.it] ELSE task
              /\ run' = [run EXCEPT ![w] = [r EXCEPT !.pc = "end", !.how = "crash",
                                                     !.role = acc.role,
                                                     !.trail = Append(@, stage)]]
              /\ hist' = Append(hist, Record(w, "crash"))
          [] OTHER ->
              /\ log' = [log EXCEPT ![t] = @ \o acc.msgs]
              /\ task' = IF said THEN [task EXCEPT ![t] = r.it] ELSE task
              /\ run' = [run EXCEPT ![w] = [r EXCEPT !.pc = next, !.role = acc.role,
                                                     !.meta_tags = acc.meta_tags,
                                                     !.error_count = acc.error_count,
                                                     !.import_state = acc.import_state,
                                                     !.trail = Append(@, stage)]]
              /\ hist' = hist

\* import_role, lines 228-230 and 235-236: the task is read; an id of no
\* row ends the invocation in fail_import_task(None, ...).  The broker
\* hands a task id to one worker at a time: an id is run again only after
\* its invocation has ended.
Load(w, t, scn) ==
    /\ ~Active(w)
    /\ budget.runs > 0
    /\ Cardinality({v \in Workers : Active(v)}) < budget.lanes
    /\ \A v \in Workers : Active(v) => run[v].tid # t
    /\ budget' = [budget EXCEPT !.runs = @ - 1]
    /\ IF t \in TaskIds
       THEN /\ run' = [run EXCEPT ![w] = [Idle EXCEPT !.pc = "mark", !.tid = t, !.scn = scn,
                                                      !.it = task[t], !.trail = <<"load">>,
                                                      !.before = Associations]]
            /\ hist' = hist
       ELSE /\ run' = [run EXCEPT ![w] = [Idle EXCEPT !.pc = "end", !.scn = scn,
                                                      !.how = "abort", !.trail = <<"load">>,
                                                      !.abort = Text("failed_get_task", 1),
                                                      !.before = Associations]]
            /\ hist' = Append(hist, [scn |-> scn, tid |-> NoTask, how |-> "abort",
                                     tags |-> roleTags, platforms |-> rolePlatforms,
                                     deps |-> roleDeps])
    /\ UNCHANGED <<task, log, dbRole, catalogue, sweep, now, index, pool>>

\* lines 231-234
MarkRunning(w) ==
    /\ run[w].pc = "mark"
    /\ LET it == [run[w].it EXCEPT !.state = "RUNNING", !.started = now]
       IN  /\ task' = [task EXCEPT ![run[w].tid] = it]
           /\ run' = [run EXCEPT ![w] = [@ EXCEPT !.pc = "connect", !.it = it,
                                                  !.trail = Append(@, "mark")]]
    /\ UNCHANGED <<log, dbRole, catalogue, sweep, now, index, pool, budget, hist>>

\* the account update_namespace mirrors: repo.organization for a
\* repository of an organization, repo.owner otherwise (lines 79, 80, 97)
Account(repo) == IF repo.owner.type = "Organization" THEN repo.organization ELSE repo.owner

\* the defaults of get_or_create, lines 80-87 and 97-104
NewNamespace(a) ==
    [namespace |-> a.login, name |-> a.name, avatar_url |-> a.avatar_url,
     location |-> a.location, company |-> a.company, email |-> a.email,
     html_url |-> a.html_url, followers |-> a.followers]

\* lines 88-95 and 105-112: the attributes written to a row that existed
Refresh(n, a) ==
    [n EXCEPT !.avatar_url = a.avatar_url, !.location = a.location,
              !.company = a.company, !.email = a.email,
              !.html_url = a.html_url, !.followers = a.followers]

\* update_namespace(repo), lines 77-113: the Namespace rows it leaves
update_namespace(table, repo) ==
    LET a == Account(repo)
        found == {n \in table : n.namespace = a.login}
    IN  IF found = {} THEN table \cup {NewNamespace(a)}
        ELSE (table \ found) \cup {Refresh(n, a) : n \in found}

\* line 277 is reached and update_namespace returns
NamespaceUpdated(scn) ==
    scn.fatal \notin {"role", "token", "api", "user", "repo", "namespace"}

\* lines 238-290: the role, the account, the repository, the branch.
\* scn.fatal names the step that raises
ConnectStage(acc, scn) ==
    IF scn.fatal = "role" THEN Abort(acc, "failed_get_role", 1)
    ELSE LET a == Say(acc, "INFO", "starting_import", 1 + 2 * scn.nameLen)
         IN  CASE scn.fatal = "token" -> Abort(a, "failed_github_account", scn.nameLen)
               [] scn.fatal = "api" -> Abort(a, "failed_github_api", 0)
               [] scn.fatal = "user" -> Abort(a, "failed_github_user", 0)
               [] scn.fatal = "repo" ->
                    Abort(Say(a, "INFO", "retrieving_repo", scn.nameLen),
                          "no_repo_access", 2 * scn.nameLen)
               [] scn.fatal = "namespace" ->
                    Crash(Say(a, "INFO", "retrieving_repo", scn.nameLen))
               [] OTHER ->
                    Say(Say(Say(a, "INFO", "retrieving_repo", scn.nameLen),
                            "INFO", "accessing_branch", scn.nameLen),
                        "INFO", "parsing_meta", 0)

Connect(w) ==
    /\ run[w].pc = "connect"
    /\ namespaceTable' = IF NamespaceUpdated(run[w].scn)
                         THEN update_namespace(namespaceTable, run[w].scn.repo)
                         ELSE namespaceTable
    /\ UNCHANGED <<dbRole, platformTable, roleTable, sweep, now, index, pool, budget>>
    /\ Conclude(w, "connect", ConnectStage([Acc(w) EXCEPT !.role = roleRow], run[w].scn),
                "manifest")

\* the manifest as the stages read it: galaxy_info = {} when the key is
\* missing (lines 294-297)
GalaxyInfo(scn) ==
    IF scn.galaxy_info THEN scn
    ELSE [scn EXCEPT !.description = Absent, !.company = Absent, !.license = Absent,
                     !.min_ansible_version = Absent, !.issue_tracker_url = Absent,
                     !.categories = Absent, !.galaxy_tags = Absent, !.platforms = Absent]

\* lines 291-297; meta_data.get raises when the document is not a mapping
ManifestStage(acc, scn) ==
    LET a == decode_yaml_file(acc, scn.main, Str(<<"y">>), MetaMainLen, scn.excLen, TRUE)
    IN  IF ~Going(a) THEN a
        ELSE IF a.file.kind = "none" THEN Crash(a)
        ELSE IF ~scn.galaxy_info THEN Say(a, "ERROR", "no_galaxy_info", 0)
        ELSE a

Manifest(w) ==
    /\ run[w].pc = "manifest"
    /\ UNCHANGED <<dbRole, catalogue, sweep, now, index, pool, budget>>
    /\ Conclude(w, "manifest", ManifestStage(Acc(w), run[w].scn), "validate")

\* lines 299-361
Validate(w) ==
    /\ run[w].pc = "validate"
    /\ UNCHANGED <<dbRole, catalogue, sweep, now, index, pool, budget>>
    /\ Conclude(w, "validate", ValidateFields(Acc(w), GalaxyInfo(run[w].scn)), "stats")

\* lines 363-387: the counts and the latest commit; the enumeration of the
\* subscribers or the commit lookup may raise
StatsStage(acc, scn) ==
    IF scn.statsRaise THEN Crash(acc)
    ELSE [acc EXCEPT !.role.watchers_count = scn.subscribers]

Stats(w) ==
    /\ run[w].pc = "stats"
    /\ UNCHANGED <<dbRole, catalogue, sweep, now, index, pool, budget>>
    /\ Conclude(w, "stats", StatsStage(Acc(w), run[w].scn), "tags")

\* lines 389-430: meta_tags is computed
Tags(w) ==
    /\ run[w].pc = "tags"
    /\ LET acc == MetaTags(Acc(w), GalaxyInfo(run[w].scn))
       IN  Conclude(w, "meta_tags", acc,
                    IF Len(acc.meta_tags) = 0 THEN "untag" ELSE "tag_find")
    /\ UNCHANGED <<dbRole, catalogue, sweep, now, index, pool, budget>>

\* line 433: the Tag of the name is looked up.  Each statement is
\* committed as it is executed, so another invocation may act between the
\* lookup and what follows it.
TagFind(w) ==
    /\ run[w].pc = "tag_find"
    /\ run' = [run EXCEPT ![w] = [@ EXCEPT
                 !.pc = "tag_add",
                 !.found = TagFound(tagTable, Distinct(run[w].meta_tags)[run[w].tag])]]
    /\ UNCHANGED <<task, log, hist, dbRole, catalogue, sweep, now, index, pool, budget>>

\* lines 434-440: a Tag that was not found is saved, and the tag is added
\* to the role; then the next tag
TagAdd(w) ==
    /\ run[w].pc = "tag_add"
    /\ UNCHANGED <<roleRow, rolePlatforms, roleDeps, roleVersions>>
    /\ UNCHANGED <<catalogue, sweep, now, index, pool, budget>>
    /\ LET todo == Distinct(run[w].meta_tags)
           name == todo[run[w].tag]
           saved == IF run[w].found THEN [ok |-> TRUE, table |-> tagTable]
                    ELSE TagInsert(tagTable, name)
       IN  IF saved.ok
           THEN /\ tagTable' = saved.table
                /\ roleTags' = AddTags(roleTags, <<name>>)
                /\ run' = [run EXCEPT ![w] = [@ EXCEPT
                             !.pc = IF run[w].tag = Len(todo) THEN "untag" ELSE "tag_find",
                             !.tag = @ + 1]]
                /\ UNCHANGED <<task, log, hist>>
           ELSE /\ UNCHANGED <<tagTable, roleTags>>
                /\ Conclude(w, "tag_add", Crash(Acc(w)), "untag")

\* lines 442-445: role.tags.all() is read again and every tag of the role
\* that is not in meta_tags is removed
Untag(w) ==
    /\ run[w].pc = "untag"
    /\ roleTags' = RemoveTags(roleTags, run[w].meta_tags)
    /\ run' = [run EXCEPT ![w] = [@ EXCEPT !.pc = "platforms",
                                           !.trail = Append(@, "tags")]]
    /\ UNCHANGED <<task, log, hist, roleRow, rolePlatforms, roleDeps, roleVersions,
                   tagTable, catalogue, sweep, now, index, pool, budget>>

\* lines 447-499
PlatformsStage(w) ==
    /\ run[w].pc = "platforms"
    /\ LET acc == Platforms(Acc(w), GalaxyInfo(run[w].scn), platformTable)
       IN  /\ rolePlatforms' = acc.platforms
           /\ UNCHANGED <<roleRow, roleTags, roleDeps, roleVersions, tagTable>>
           /\ Conclude(w, "platforms", acc, "dependencies")
    /\ UNCHANGED <<catalogue, sweep, now, index, pool, budget>>

\* lines 501-555
DependenciesStage(w) ==
    /\ run[w].pc = "dependencies"
    /\ LET acc == Dependencies(Acc(w), run[w].scn, roleTable)
       IN  /\ roleDeps' = acc.deps
           /\ UNCHANGED <<roleRow, roleTags, rolePlatforms, roleVersions, tagTable>>
           /\ Conclude(w, "dependencies", acc, "versions")
    /\ UNCHANGED <<catalogue, sweep, now, index, pool, budget>>

\* lines 557-583
Versions(w) ==
    /\ run[w].pc = "versions"
    /\ LET acc == ValidateCharLengths(RoleVersions(get_readme(Acc(w), run[w].scn),
                                                   run[w].scn), run[w].scn)
       IN  /\ roleVersions' = acc.versions
           /\ UNCHANGED <<roleRow, roleTags, rolePlatforms, roleDeps, tagTable>>
           /\ Conclude(w, "versions", acc, "count")
    /\ UNCHANGED <<catalogue, sweep, now, index, pool, budget>>

\* len of "SUCCESS" or "FAILED" and of the two counts in the status message
StatusArgsLen == 9

\* lines 585-592: the errors are counted in the stored log of the task
CountStage(acc, entries) ==
    LET error_count == CountType(entries, "ERROR")
        import_state == ImportState(error_count)
    IN  [Say(acc, "INFO", "import_completed", 0)
           EXCEPT !.msgs = Append(@, Entry(import_state, "status", StatusArgsLen)),
                  !.error_count = error_count,
                  !.import_state = import_state]

Count(w) ==
    /\ run[w].pc = "count"
    /\ UNCHANGED <<dbRole, catalogue, sweep, now, index, pool, budget>>
    /\ Conclude(w, "count", CountStage(Acc(w), log[run[w].tid]), "finalize")


\* lines 594-603: the task and the role are saved; saveFails: the save of
\* the task at line 597 raises, nothing is stored and the run ends in
\* fail_import_task
Finalize(w) ==
    /\ run[w].pc = "finalize"
    /\ UNCHANGED <<roleTags, rolePlatforms, roleDeps, roleVersions, tagTable>>
    /\ UNCHANGED <<catalogue, sweep, now, index, pool, budget>>
    /\ IF run[w].scn.saveFails
       THEN /\ roleRow' = roleRow
            /\ Conclude(w, "finalize",
                        Abort(Acc(w), "error_saving_role", run[w].scn.excLen), "end")
       ELSE LET it == [run[w].it EXCEPT !.state = run[w].import_state, !.finished = now]
            IN  /\ task' = [task EXCEPT ![run[w].tid] = it]
                /\ roleRow' = [run[w].role EXCEPT !.imported = now, !.is_valid = TRUE]
                /\ run' = [run EXCEPT ![w] = [@ EXCEPT !.pc = "index", !.it = it,
                                                       !.trail = Append(@, "finalize")]]
                /\ UNCHANGED <<log, hist>>

\* a dispatch that is made twice
Index_twice(w) ==
    /\ run[w].pc = "index"
    /\ index' = index \o
                  [i \in 1..2 |-> [tid |-> run[w].tid, tags |-> roleTags,
                                   platforms |-> {p.name : p \in rolePlatforms}]]
    /\ UNCHANGED <<task, log, dbRole, catalogue, sweep, now, pool, budget>>
    /\ run' = [run EXCEPT ![w] = [@ EXCEPT !.pc = "end", !.how = "done",
                                           !.trail = Append(@, "index")]]
    /\ hist' = Append(hist, Record(w, "done"))

\* lines 605-609
Index(w) ==
    /\ run[w].pc = "index"
    /\ index' = Append(index, [tid |-> run[w].tid, tags |-> roleTags,
                               platforms |-> {p.name : p \in rolePlatforms}])
    /\ UNCHANGED <<task, log, dbRole, catalogue, sweep, now, pool, budget>>
    /\ run' = [run EXCEPT ![w] = [@ EXCEPT !.pc = "end", !.how = "done",
                                           !.trail = Append(@, "index")]]
    /\ hist' = Append(hist, Record(w, "done"))

\* one step of import_role on worker w
Pipeline(w) ==
    \/ MarkRunning(w)
    \/ Connect(w)
    \/ Manifest(w)
    \/ Validate(w)
    \/ Stats(w)
    \/ Tags(w)
    \/ TagFind(w)
    \/ TagAdd(w)
    \/ Untag(w)
    \/ PlatformsStage(w)
    \/ DependenciesStage(w)
    \/ Versions(w)
    \/ Count(w)
    \/ Finalize(w)
    \/ Index(w)

-----------------------------------------------------------------------------
(* clear_stuck_imports, lines 753-771 *)

\* line 758: the rows the query returns
StuckRows == {t \in TaskIds : task[t].state = "PENDING" /\ task[t].created <= now - StuckSeconds}

SweepSelect ==
    /\ sweep.pc = "idle"
    /\ sweep.left > 0
    /\ sweep' = [pc |-> IF StuckRows = {} THEN "idle" ELSE "scan",
                 rows |-> [t \in StuckRows |-> task[t]],
                 left |-> sweep.left - 1]
    /\ UNCHANGED <<task, log, dbRole, catalogue, run, now, index, pool, budget, hist>>

\* lines 762-769: one row of the query is failed and saved
SweepRow(t) ==
    /\ sweep.pc = "scan"
    /\ t \in DOMAIN sweep.rows
    /\ task' = [task EXCEPT ![t] = [sweep.rows[t] EXCEPT !.state = "FAILED"]]
    /\ log' = [log EXCEPT ![t] = Append(@, [type |-> "ERROR",
                                             text |-> Text("import_timed_out", 0)])]
    /\ LET rest == [u \in DOMAIN sweep.rows \ {t} |-> sweep.rows[u]]
       IN  sweep' = [sweep EXCEPT !.rows = rest,
                                  !.pc = IF DOMAIN rest = {} THEN "idle" ELSE "scan"]
    /\ UNCHANGED <<dbRole, catalogue, run, now, index, pool, budget, hist>>

Tick ==
    /\ now < (NumTasks - 1 + MaxTicks) * TickSeconds
    /\ now' = now + TickSeconds
    /\ UNCHANGED <<task, log, dbRole, catalogue, run, sweep, index, pool, budget, hist>>

-----------------------------------------------------------------------------
(* What the collaborators answer: scenarios *)

Word(i) == <<Letters[i]>>

\* a GitHub account as the API returns it
GitHubAccount(type, login, name, followers) ==
    [type |-> type, login |-> login, name |-> name, avatar_url |-> <<"v">>,
     location |-> <<"l">>, company |-> <<"c">>, email |-> <<"e">>,
     html_url |-> <<"h">>, followers |-> followers]

\* the repository of a user
BaseRepo == [owner |-> GitHubAccount("User", <<"u">>, <<"n">>, 1),
             organization |-> GitHubAccount("User", <<"u">>, <<"n">>, 1)]

\* a run whose manifest and repository raise no diagnostic
BaseScn ==
    [fatal |-> "none", main |-> "ok", excLen |-> ShortExc, nameLen |-> NameLen,
     abortFails |-> FALSE, abortEntry |-> FALSE, saveFails |-> FALSE, altName |-> FALSE, galaxy_info |-> TRUE,
     description |-> Str(<<"d">>), repoDescription |-> Str(<<"r">>),
     company |-> Absent, license |-> Str(<<"l">>), min_ansible_version |-> Str(<<"2">>),
     issue_tracker_url |-> Absent, has_issues |-> TRUE,
     container |-> "fetch", ansibleContainer |-> "fetch",
     statsRaise |-> FALSE, subscribers |-> 1, repo |-> BaseRepo,
     categories |-> Absent, galaxy_tags |-> List(<<Word(1)>>),
     platforms |-> List(<<>>), dependencies |-> List(<<>>), lookupFails |-> {},
     readmeHtml |-> TRUE, readme |-> "md",
     gitTags |-> <<>>, gitTagsRaise |-> FALSE, gitTagsRead |-> 0,
     roleTooLong |-> FALSE, taskTooLong |-> FALSE]

\* the scenarios of Spec: a run that succeeds, one that completes with
\* errors, one that fail_import_task ends
ConcurrentPool ==
    {[BaseScn EXCEPT !.min_ansible_version = Absent],
     [BaseScn EXCEPT !.galaxy_info = FALSE],
     [BaseScn EXCEPT !.main = "fetch", !.excLen = LongExc]}

\* the scenarios of SpecSeq: each way a run ends
LifecyclePool ==
    {BaseScn,
     [BaseScn EXCEPT !.fatal = "repo"],
     [BaseScn EXCEPT !.main = "yaml"],
     [BaseScn EXCEPT !.main = "fetch", !.abortFails = TRUE],
     [BaseScn EXCEPT !.main = "yaml", !.abortFails = TRUE, !.abortEntry = TRUE],
     [BaseScn EXCEPT !.main = "b64", !.excLen = LongExc],
     [BaseScn EXCEPT !.saveFails = TRUE],
     [BaseScn EXCEPT !.galaxy_info = FALSE],
     [BaseScn EXCEPT !.company = Str([i \in 1..(MaxCompanyLen + 1) |-> "c"])],
     [BaseScn EXCEPT !.statsRaise = TRUE]}

InitRole ==
    [description |-> Str(<<>>), company |-> Str(<<>>), license |-> Str(<<>>),
     min_ansible_version |-> Str(<<>>), issue_tracker_url |-> Str(<<>>),
     role_type |-> "ANS", container_yml |-> None, readme_type |-> "None",
     watchers_count |-> 0, imported |-> NoTime, is_valid |-> FALSE]

\* the ImportTask rows as the request handler creates them, an hour apart
InitTasks ==
    [t \in TaskIds |-> [state |-> "PENDING", created |-> (t - 1) * TickSeconds,
                        started |-> NoTime, finished |-> NoTime]]

InitCommon ==
    /\ task = InitTasks
    /\ log = [t \in TaskIds \cup {NoTask} |-> <<>>]
    /\ roleRow = InitRole
    /\ roleVersions = {}
    /\ namespaceTable = {NewNamespace(Account(BaseRepo))}
    /\ run = [w \in Workers |-> Idle]
    /\ sweep = [pc |-> "idle", rows |-> <<>>, left |-> MaxSweeps]
    /\ now = (NumTasks - 1) * TickSeconds
    /\ index = <<>>
    /\ hist = <<>>

Init ==
    /\ InitCommon
    /\ roleTags = {Word(15)}
    /\ tagTable = TagRows({Word(15)})
    /\ rolePlatforms = {}
    /\ roleDeps = {}
    /\ platformTable = {}
    /\ roleTable = {}
    /\ pool = ConcurrentPool
    /\ budget = [runs |-> MaxRuns, lanes |-> NumWorkers]

\* one invocation at a time, every way a run ends
InitSeq ==
    /\ InitCommon
    /\ roleTags = {Word(15)}
    /\ tagTable = TagRows({Word(15)})
    /\ rolePlatforms = {}
    /\ roleDeps = {}
    /\ platformTable = {}
    /\ roleTable = {}
    /\ pool = LifecyclePool
    /\ budget = [runs |-> MaxRuns, lanes |-> 1]

Start(w) == \E t \in TaskIds \cup {NoTask}, scn \in pool : Load(w, t, scn)

Next ==
    \/ \E w \in Workers : Start(w)
    \/ \E w \in Workers : Pipeline(w)
    \/ SweepSelect
    \/ \E t \in TaskIds : SweepRow(t)
    \/ Tick

Spec == Init /\ [][Next]_vars

\* the invocations alone: no sweep, the clock stands still
NextRuns ==
    \/ \E w \in Workers : Start(w)
    \/ \E w \in Workers : Pipeline(w)

SpecSeq == InitSeq /\ [][NextRuns]_vars

-----------------------------------------------------------------------------
(* Specifications of one stage: the manifest and the stored rows range over *)
(* a family of inputs, one invocation at a time                             *)

\* the sequences over a set of entries, of at most two entries
UpToTwo(entries) ==
    {<<>>} \cup {<<e>> : e \in entries} \cup {<<e, f>> : e \in entries, f \in entries}

InitStage(scenarios, runs) ==
    /\ InitCommon
    /\ pool = scenarios
    /\ budget = [runs |-> runs, lanes |-> 1]

\* entries listed under galaxy_tags in the longest manifest
MaxListed == 22

\* a galaxy_tags list of n entries, distinct but for entry dup, which
\* repeats the first, and entry bad, which the pattern rejects
TagList(n, dup, bad) ==
    [i \in 1..n |-> IF i = bad THEN <<"-">>
                    ELSE IF i = dup THEN Word(1)
                    ELSE Word(i)]

TagsPool ==
    {[BaseScn EXCEPT !.galaxy_tags = List(TagList(n, dup, bad)), !.categories = cats] :
        n \in {0, 1, 3, MaxTags - 1, MaxTags, MaxTags + 1, MaxListed},
        dup \in {0, 2, MaxTags + 1},
        bad \in {0, 3, MaxTags},
        cats \in {Absent, Str(Word(24)), List(<<Word(25) \o <<":">> \o Word(2)>>)}}

InitTags ==
    /\ InitStage(TagsPool, 1)
    /\ roleTags \in {{}, {Word(1)}, {Word(2), Word(26)}}
    /\ tagTable = TagRows(roleTags \cup {Word(3)})
    /\ rolePlatforms = {}
    /\ roleDeps = {}
    /\ platformTable = {}
    /\ roleTable = {}

SpecTags == InitTags /\ [][NextRuns]_vars

\* the Platform rows: two releases of one name, a single release, and two
\* rows whose name and release hold a hyphen
PlatformRows ==
    {[name |-> <<"e">>, release |-> <<"6">>],
     [name |-> <<"e">>, release |-> <<"7">>],
     [name |-> <<"u">>, release |-> <<"1">>],
     [name |-> <<"a">>, release |-> <<"b", "-", "c">>],
     [name |-> <<"a", "-", "b">>, release |-> <<"c">>]}

PlatformEntry(name, versions) == [kind |-> "dict", name |-> name, versions |-> versions]

PlatformEntries ==
    {PlatformEntry(Str(<<"e">>), Absent),
     PlatformEntry(Str(<<"e">>), List(<<All>>)),
     PlatformEntry(Str(<<"e">>), List(<<<<"6">>, All>>)),
     PlatformEntry(Str(<<"e">>), List(<<<<"6">>>>)),
     PlatformEntry(Str(<<"e">>), List(<<<<"7">>, <<"9">>>>)),
     PlatformEntry(Str(<<"u">>), List(<<<<"1">>>>)),
     PlatformEntry(Str(<<"a", "-", "b">>), List(<<<<"c">>>>)),
     PlatformEntry(Str(<<"x">>), Absent),
     PlatformEntry(Absent, Absent),
     PlatformEntry(Str(<<"u">>), Str(<<"1">>)),
     [kind |-> "str", name |-> Absent, versions |-> Absent]}

PlatformsPool ==
    {[BaseScn EXCEPT !.platforms = List(l)] : l \in UpToTwo(PlatformEntries)}
        \cup {[BaseScn EXCEPT !.platforms = Absent],
              [BaseScn EXCEPT !.platforms = Str(<<"e">>)]}

InitPlatforms ==
    /\ InitStage(PlatformsPool, 1)
    /\ roleTags = {Word(1)}
    /\ tagTable = TagRows({Word(1)})
    /\ platformTable = PlatformRows
    /\ rolePlatforms \in
          {{},
           {[name |-> <<"e">>, release |-> <<"6">>], [name |-> <<"u">>, release |-> <<"1">>]},
           {[name |-> <<"a">>, release |-> <<"b", "-", "c">>]},
           {[name |-> <<"e">>, release |-> <<"7">>], [name |-> <<"a", "-", "b">>, release |-> <<"c">>]}}
    /\ roleDeps = {}
    /\ roleTable = {}

SpecPlatforms == InitPlatforms /\ [][NextRuns]_vars

\* the Role rows a dependency may name
RoleRows ==
    {[namespace |-> <<"a">>, name |-> <<"b">>],
     [namespace |-> <<"a", ".", "b">>, name |-> <<"c">>],
     [namespace |-> <<"a">>, name |-> <<"b", ".", "c">>],
     [namespace |-> <<"x">>, name |-> <<"y">>]}

DepEntry(kind, role, val) == [kind |-> kind, role |-> role, val |-> val]

DepEntries ==
    {DepEntry("str", Absent, <<"a", ".", "b">>),
     DepEntry("str", Absent, <<"a", ".", "b", ".", "c">>),
     DepEntry("str", Absent, <<"x", ".", "y">>),
     DepEntry("str", Absent, <<"a", "b">>),
     DepEntry("str", Absent, <<"q", ".", "r">>),
     DepEntry("dict", Str(<<"a", ".", "b">>), <<>>),
     DepEntry("dict", Str(<<"a", ".", "b", ".", "c">>), <<>>),
     DepEntry("dict", Absent, <<>>),
     DepEntry("int", Absent, <<>>)}

DependenciesPool ==
    {[BaseScn EXCEPT !.dependencies = List(l), !.lookupFails = fails] :
        l \in UpToTwo(DepEntries),
        fails \in {{}, {<<"a", ".", "b">>}, {<<"a", ".", "b", ".", "c">>}}}
        \cup {[BaseScn EXCEPT !.dependencies = Absent]}

InitDependencies ==
    /\ InitStage(DependenciesPool, 1)
    /\ roleTags = {Word(1)}
    /\ tagTable = TagRows({Word(1)})
    /\ platformTable = {}
    /\ rolePlatforms = {}
    /\ roleTable = RoleRows
    /\ roleDeps \in
          {{},
           {[namespace |-> <<"a">>, name |-> <<"b">>]},
           {[namespace |-> <<"x">>, name |-> <<"y">>],
            [namespace |-> <<"a", ".", "b">>, name |-> <<"c">>]}}

SpecDependencies == InitDependencies /\ [][NextRuns]_vars

\* two invocations in sequence over manifests that reach every reconciliation
IdempotencePool ==
    {[BaseScn EXCEPT !.galaxy_tags = List(<<Word(1), Word(2)>>),
                     !.platforms = List(<<PlatformEntry(Str(<<"e">>), Absent)>>),
                     !.dependencies = List(<<DepEntry("str", Absent, <<"a", ".", "b">>)>>)],
     [BaseScn EXCEPT !.galaxy_tags = List(TagList(MaxTags + 1, 2, 0)),
                     !.platforms = List(<<PlatformEntry(Str(<<"a", "-", "b">>),
                                                        List(<<<<"c">>>>))>>),
                     !.dependencies =
                         List(<<DepEntry("dict", Str(<<"a", ".", "b", ".", "c">>), <<>>)>>)],
     [BaseScn EXCEPT !.galaxy_tags = List(<<>>), !.platforms = Absent,
                     !.dependencies = Absent],
     [BaseScn EXCEPT !.platforms = List(<<PlatformEntry(Str(<<"e">>),
                                                        List(<<<<"7">>, <<"9">>>>))>>),
                     !.dependencies = List(<<DepEntry("str", Absent, <<"a", ".", "b">>),
                                             DepEntry("str", Absent, <<"q", ".", "r">>)>>),
                     !.lookupFails = {<<"a", ".", "b">>}],
     [BaseScn EXCEPT !.galaxy_info = FALSE],
     [BaseScn EXCEPT !.main = "fetch"]}

InitIdempotence ==
    /\ InitStage(IdempotencePool, 2)
    /\ roleTags = {Word(2), Word(26)}
    /\ tagTable = TagRows({Word(2), Word(26)})
    /\ platformTable = PlatformRows
    /\ rolePlatforms = {[name |-> <<"e">>, release |-> <<"6">>],
                        [name |-> <<"a">>, release |-> <<"b", "-", "c">>]}
    /\ roleTable = RoleRows
    /\ roleDeps = {[namespace |-> <<"a">>, name |-> <<"b">>],
                   [namespace |-> <<"x">>, name |-> <<"y">>]}

SpecIdempotence == InitIdempotence /\ [][NextRuns]_vars

\* longest description in a manifest
MaxDescribed == 257

\* a text of n characters, no two neighbours alike
DescText(n) == [i \in 1..n |-> Letters[((i - 1) % 26) + 1]]

Pad(s) == <<" ">> \o s \o <<"\n", "\t">>

Descriptions ==
    {Absent, None, Number(7)}
        \cup {Str(DescText(n)) : n \in {0, 1, MaxDescriptionLen - 1, MaxDescriptionLen,
                                        MaxDescriptionLen + 1, MaxDescribed}}
        \cup {Str(Pad(DescText(n))) : n \in {0, 1, MaxDescriptionLen, MaxDescriptionLen + 1}}

DescriptionsPool ==
    {[BaseScn EXCEPT !.description = d, !.repoDescription = r, !.galaxy_info = g] :
        d \in Descriptions,
        r \in {None, Str(<<"r">>), Str(<<" ">>), Str(Pad(DescText(MaxDescriptionLen + 1)))},
        g \in BOOLEAN}

InitDescriptions ==
    /\ InitStage(DescriptionsPool, 1)
    /\ roleTags = {Word(1)}
    /\ tagTable = TagRows({Word(1)})
    /\ platformTable = {}
    /\ rolePlatforms = {}
    /\ roleTable = {}
    /\ roleDeps = {}

SpecDescriptions == InitDescriptions /\ [][NextRuns]_vars

\* longest license in a manifest
MaxLicensed == 52

Licenses ==
    {Absent, None, Number(7)}
        \cup {Str(DescText(n)) : n \in {0, 1, MaxLicenseLen - 1, MaxLicenseLen,
                                        MaxLicenseLen + 1, MaxLicensed}}
        \cup {Str(Pad(DescText(n))) : n \in {0, 1, MaxLicenseLen - 2, MaxLicenseLen,
                                             MaxLicenseLen + 1}}

LicensesPool ==
    {[BaseScn EXCEPT !.license = l, !.galaxy_info = g] : l \in Licenses, g \in BOOLEAN}

InitLicenses ==
    /\ InitStage(LicensesPool, 1)
    /\ roleTags = {Word(1)}
    /\ tagTable = TagRows({Word(1)})
    /\ platformTable = {}
    /\ rolePlatforms = {}
    /\ roleTable = {}
    /\ roleDeps = {}

SpecLicenses == InitLicenses /\ [][NextRuns]_vars

\* manifests without a valid tag token, and one with; the other stages
\* succeed, log an ERROR, raise, or fail to save
NoTagsPool ==
    {[o EXCEPT !.galaxy_tags = t, !.categories = c] :
        o \in {BaseScn,
               [BaseScn EXCEPT !.min_ansible_version = Absent],
               [BaseScn EXCEPT !.platforms = Absent],
               [BaseScn EXCEPT !.galaxy_info = FALSE],
               [BaseScn EXCEPT !.statsRaise = TRUE],
               [BaseScn EXCEPT !.saveFails = TRUE]},
        t \in {Absent, None, Str(<<"x">>), Number(5), List(<<>>), List(<<<<"-">>>>),
               List(<<<<"-">>, <<"!", ":", "?">>>>), List(<<Word(1)>>)},
        c \in {Absent, Str(<<"x">>), List(<<<<"-">>>>)}}

InitNoTags ==
    /\ InitStage(NoTagsPool, 1)
    /\ roleTags = {Word(1), Word(26)}
    /\ tagTable = TagRows({Word(1), Word(26)})
    /\ platformTable = {}
    /\ rolePlatforms = {}
    /\ roleTable = {}
    /\ roleDeps = {}

SpecNoTags == InitNoTags /\ [][NextRuns]_vars

\* an upstream tag: its name and the date of its commit
GitTag(n, date) == [name |-> Word(n), date |-> date]

\* tag lists that grow, shrink, repeat a name and change a date; the
\* listing may raise before the first tag or after it
VersionsPool ==
    {[BaseScn EXCEPT !.gitTags = tags, !.gitTagsRaise = raise[1], !.gitTagsRead = raise[2]] :
        tags \in {<<>>, <<GitTag(1, 1)>>, <<GitTag(1, 1), GitTag(2, 1)>>, <<GitTag(2, 2)>>,
                  <<GitTag(1, 2), GitTag(1, 3)>>},
        raise \in {<<FALSE, 0>>, <<TRUE, 0>>, <<TRUE, 1>>}}
        \cup {[BaseScn EXCEPT !.main = "fetch"]}

InitVersions ==
    /\ InitCommon
    /\ pool = VersionsPool
    /\ budget = [runs |-> 2, lanes |-> 1]
    /\ roleTags = {Word(1)}
    /\ tagTable = TagRows({Word(1)})
    /\ platformTable = {}
    /\ rolePlatforms = {}
    /\ roleTable = {}
    /\ roleDeps = {}

SpecVersions == InitVersions /\ [][NextRuns]_vars

\* what the repository host and the decoders do with the two optional
\* container descriptors
FileOutcomes == {"fetch", "b64", "yaml", "empty", "ok"}

ContainersPool ==
    {[BaseScn EXCEPT !.container = m, !.ansibleContainer = a] :
        m \in FileOutcomes, a \in FileOutcomes}

InitContainers ==
    /\ InitStage(ContainersPool, 1)
    /\ roleTags = {Word(1)}
    /\ tagTable = TagRows({Word(1)})
    /\ platformTable = {}
    /\ rolePlatforms = {}
    /\ roleTable = {}
    /\ roleDeps = {}

SpecContainers == InitContainers /\ [][NextRuns]_vars

\* two invocations at once for the same role, their manifests listing
\* different tags
RacePool ==
    {[BaseScn EXCEPT !.galaxy_tags = List(<<Word(1)>>)],
     [BaseScn EXCEPT !.galaxy_tags = List(<<Word(2), Word(3)>>)]}

InitRace ==
    /\ InitCommon
    /\ roleTags = {Word(15)}
    /\ tagTable = TagRows({Word(15)})
    /\ rolePlatforms = {}
    /\ roleDeps = {}
    /\ platformTable = {}
    /\ roleTable = {}
    /\ pool = RacePool
    /\ budget = [runs |-> 2, lanes |-> 2]

SpecRace == InitRace /\ [][NextRuns]_vars

\* what the collaborators return or raise: the namespace update raises
\* (line 277), meta/main.yml is an empty document (line 294), the
\* subscriber enumeration or the commit lookup raises (lines 365-372),
\* galaxy_info.company is a number (line 332); and a run nothing disturbs
CollaboratorsPool ==
    {BaseScn,
     [BaseScn EXCEPT !.galaxy_info = FALSE],
     [BaseScn EXCEPT !.fatal = "repo"],
     [BaseScn EXCEPT !.fatal = "namespace"],
     [BaseScn EXCEPT !.main = "empty"],
     [BaseScn EXCEPT !.statsRaise = TRUE],
     [BaseScn EXCEPT !.company = Number(7)]}

InitCollaborators ==
    /\ InitStage(CollaboratorsPool, 2)
    /\ roleTags = {}
    /\ tagTable = TagRows({})
    /\ rolePlatforms = {}
    /\ roleDeps = {}
    /\ platformTable = {}
    /\ roleTable = {}

\* a worker that has picked a task up runs import_role until it returns or
\* raises
SpecCollaborators ==
    /\ InitCollaborators
    /\ [][NextRuns]_vars
    /\ \A w \in Workers : WF_vars(Pipeline(w))

\* the role as an earlier import left it: plain, a container, a container
\* application
StoredKinds ==
    {InitRole,
     [InitRole EXCEPT !.role_type = "CON", !.container_yml = Str(<<"o">>)],
     [InitRole EXCEPT !.role_type = "APP", !.container_yml = Str(<<"p">>)]}

InitKinds ==
    /\ task = InitTasks
    /\ log = [t \in TaskIds \cup {NoTask} |-> <<>>]
    /\ roleRow \in StoredKinds
    /\ roleVersions = {}
    /\ namespaceTable = {NewNamespace(Account(BaseRepo))}
    /\ run = [w \in Workers |-> Idle]
    /\ sweep = [pc |-> "idle", rows |-> <<>>, left |-> MaxSweeps]
    /\ now = (NumTasks - 1) * TickSeconds
    /\ index = <<>>
    /\ hist = <<>>
    /\ roleTags = {Word(1)}
    /\ tagTable = TagRows({Word(1)})
    /\ platformTable = {}
    /\ rolePlatforms = {}
    /\ roleTable = {}
    /\ roleDeps = {}
    /\ pool = ContainersPool
    /\ budget = [runs |-> 1, lanes |-> 1]

SpecKinds == InitKinds /\ [][NextRuns]_vars

\* the repositories of SpecNamespaces: of a user, of the same user after the
\* account was renamed and gained a follower, of an organization
RenamedRepo == [owner |-> GitHubAccount("User", <<"u">>, <<"m">>, 2),
                organization |-> GitHubAccount("User", <<"u">>, <<"m">>, 2)]

OrganizationRepo == [owner |-> GitHubAccount("Organization", <<"o">>, <<"w">>, 0),
                     organization |-> GitHubAccount("Organization", <<"o">>, <<"g">>, 3)]

NamespacesPool ==
    {BaseScn,
     [BaseScn EXCEPT !.repo = RenamedRepo],
     [BaseScn EXCEPT !.repo = OrganizationRepo],
     [BaseScn EXCEPT !.repo = RenamedRepo, !.fatal = "namespace"],
     [BaseScn EXCEPT !.repo = OrganizationRepo, !.fatal = "repo"]}

\* no Namespace row, the row of the user as an earlier import left it, the
\* row of another account
InitNamespaces ==
    /\ task = InitTasks
    /\ log = [t \in TaskIds \cup {NoTask} |-> <<>>]
    /\ roleRow = InitRole
    /\ roleVersions = {}
    /\ namespaceTable \in
          {{},
           {NewNamespace(Account(BaseRepo))},
           {NewNamespace(GitHubAccount("User", <<"z">>, <<"n">>, 1))}}
    /\ run = [w \in Workers |-> Idle]
    /\ sweep = [pc |-> "idle", rows |-> <<>>, left |-> MaxSweeps]
    /\ now = (NumTasks - 1) * TickSeconds
    /\ index = <<>>
    /\ hist = <<>>
    /\ roleTags = {Word(1)}
    /\ tagTable = TagRows({Word(1)})
    /\ platformTable = {}
    /\ rolePlatforms = {}
    /\ roleTable = {}
    /\ roleDeps = {}
    /\ pool = NamespacesPool
    /\ budget = [runs |-> 2, lanes |-> 1]

SpecNamespaces == InitNamespaces /\ [][NextRuns]_vars

\* two invocations at once whose manifests name the same tag, of which
\* there is no Tag row yet
SharedTagsPool ==
    {[BaseScn EXCEPT !.galaxy_tags = List(<<Word(1)>>)],
     [BaseScn EXCEPT !.galaxy_tags = List(<<Word(2), Word(1)>>)]}

InitSharedTags ==
    /\ InitCommon
    /\ roleTags = {}
    /\ tagTable = TagRows({Word(15)})
    /\ rolePlatforms = {}
    /\ roleDeps = {}
    /\ platformTable = {}
    /\ roleTable = {}
    /\ pool = SharedTagsPool
    /\ budget = [runs |-> 2, lanes |-> 2]

SpecSharedTags == InitSharedTags /\ [][NextRuns]_vars

\* values of the platforms and the dependencies key: missing, null, a
\* string, the empty string, a number, and a list
KeyValues == {Absent, None, Str(<<"e">>), Str(<<>>), Number(5), List(<<>>)}

KeysPool ==
    {[BaseScn EXCEPT !.platforms = p, !.dependencies = d] : p \in KeyValues, d \in KeyValues}
        \cup {[BaseScn EXCEPT !.galaxy_info = FALSE]}

InitKeys ==
    /\ InitStage(KeysPool, 1)
    /\ roleTags = {Word(1)}
    /\ tagTable = TagRows({Word(1)})
    /\ platformTable = PlatformRows
    /\ rolePlatforms = {[name |-> <<"e">>, release |-> <<"6">>],
                        [name |-> <<"u">>, release |-> <<"1">>]}
    /\ roleTable = RoleRows
    /\ roleDeps = {[namespace |-> <<"a">>, name |-> <<"b">>]}

SpecKeys == InitKeys /\ [][NextRuns]_vars

-----------------------------------------------------------------------------
(* Properties *)

Errors(entries) == Cardinality({i \in 1..Len(entries) : entries[i].type = "ERROR"})

Warnings(entries) == Cardinality({i \in 1..Len(entries) : entries[i].type = "WARNING"})

Last(entries) == entries[Len(entries)]

Reconciliation == {"meta_tags", "tag_add", "tags", "platforms", "dependencies", "versions"}

\* the step in which fail_import_task ends the invocation of w on a task
AbortStep(w) == Active(w) /\ run'[w].pc = "end" /\ run'[w].how = "abort"

\* the entry fail_import_task is to log: msg cut to 255 characters
AbortEntry(msg) ==
    [type |-> "ERROR",
     text |-> [id |-> msg.id, len |-> IF msg.len > 255 THEN 255 ELSE msg.len]]

Forward(a, b) ==
    \/ a = b
    \/ a = "PENDING" /\ b \in {"RUNNING", "FAILED"}
    \/ a = "RUNNING" /\ b \in {"SUCCESS", "FAILED"}

\* C1: the stored state of every task only moves forward along PENDING ->
\* RUNNING -> {SUCCESS, FAILED}, or PENDING -> FAILED: a terminal state never
\* changes again and RUNNING never goes back to PENDING.
C1_StateMonotonic == [][\A t \in TaskIds : Forward(task[t].state, task'[t].state)]_vars

\* C2 as claimed: whenever fail_import_task is called with an existing task,
\* afterwards the task is FAILED, finished is set, the last log entry is the
\* ERROR msg[:255], and the run has ended: no later stage runs, and the step
\* changes no association of the role and dispatches no index update.
C2_AbortAlwaysFails ==
    [][\A w \in Workers :
          /\ AbortStep(w) =>
                LET t == run[w].tid
                IN  /\ task'[t].state = "FAILED"
                    /\ task'[t].finished # NoTime
                    /\ Len(log'[t]) > 0
                    /\ Last(log'[t]) = AbortEntry(run'[w].abort)
                    /\ UNCHANGED <<dbRole, index>>
          /\ (run[w].pc = "end" /\ run[w].how = "abort") =>
                (run'[w] = run[w] \/ run'[w].trail = <<"load">>)]_vars

\* C2 as amended: fail_import_task always ends the run, and no later stage
\* runs.  When its update of the task succeeds, the task is FAILED, finished
\* is set and the last log entry is the ERROR msg[:255].  When the update
\* raises, the stored task is as the last add_message left it, and the log
\* has grown by what the stage logged before and at most the ERROR
\* msg[:255].
C2_AbortFailsWhenCommitted ==
    [][\A w \in Workers :
          /\ AbortStep(w) =>
                LET t == run[w].tid
                IN  /\ UNCHANGED <<dbRole, index>>
                    /\ ~run[w].scn.abortFails =>
                          /\ task'[t].state = "FAILED"
                          /\ task'[t].finished # NoTime
                          /\ Len(log'[t]) > 0
                          /\ Last(log'[t]) = AbortEntry(run'[w].abort)
                    /\ run[w].scn.abortFails =>
                          /\ task'[t] \in {task[t], run[w].it}
                          /\ \A i \in (Len(log[t]) + 1)..Len(log'[t]) :
                                log'[t][i].text.id = run'[w].abort.id =>
                                    /\ i = Len(log'[t])
                                    /\ log'[t][i] = AbortEntry(run'[w].abort)
          /\ (run[w].pc = "end" /\ run[w].how = "abort") =>
                (run'[w] = run[w] \/ run'[w].trail = <<"load">>)]_vars

\* a run ended by fail_import_task whose message is longer than 255
\* characters, logged cut to 255
C2_Witness ==
    \E w \in Workers :
        /\ run[w].pc = "end" /\ run[w].how = "abort" /\ run[w].tid \in TaskIds
        /\ run[w].abort.len > MaxMessageLen
        /\ task[run[w].tid].state = "FAILED"
        /\ Last(log[run[w].tid]).text.len = MaxMessageLen

\* C3: in a run without a fatal abort, the count is the number of ERROR
\* entries in the log of the task when it is taken, and the state written at
\* finalize is SUCCESS when that count is zero and FAILED otherwise: WARNING
\* and INFO entries do not count.
C3_OutcomeByErrors ==
    [][\A w \in Workers :
          /\ (run[w].pc = "count" /\ run'[w].pc = "finalize") =>
                run'[w].error_count = Errors(log[run[w].tid])
          /\ (run[w].pc = "finalize" /\ run'[w].pc = "index") =>
                task'[run[w].tid].state =
                    IF run[w].error_count = 0 THEN "SUCCESS" ELSE "FAILED"]_vars

\* a task finalized SUCCESS with a WARNING in its log
C3_Witness ==
    \E w \in Workers :
        /\ run[w].pc = "index"
        /\ task[run[w].tid].state = "SUCCESS"
        /\ Warnings(log[run[w].tid]) > 0

\* the invocation of w has ended at the required manifest, and it is the
\* only invocation so far: none ended before it and none has begun since
ManifestFailed(w) ==
    /\ run[w].pc = "end"
    /\ \A v \in Workers : ~Active(v)
    /\ run[w].tid \in TaskIds
    /\ run[w].scn.fatal = "none"
    /\ run[w].scn.main \in {"fetch", "b64", "yaml"}
    /\ Len(hist) = 1

\* C4 as claimed: when meta/main.yml cannot be obtained, no reconciliation
\* stage runs, the task ends FAILED and the log holds exactly one ERROR.
C4_ManifestOneError ==
    \A w \in Workers :
        ManifestFailed(w) =>
            /\ Range(run[w].trail) \cap Reconciliation = {}
            /\ task[run[w].tid].state = "FAILED"
            /\ Errors(log[run[w].tid]) = 1

\* C4 as amended: no reconciliation stage runs; when the update of
\* fail_import_task commits, the task ends FAILED and the log holds one
\* ERROR for a fetch or base64 failure and two for a YAML parse failure (the
\* parse error, then the abort); when the update raises, the task stays
\* RUNNING and the abort's ERROR may be missing.
C4_ManifestAborts ==
    \A w \in Workers :
        ManifestFailed(w) =>
            LET t == run[w].tid
                parse == IF run[w].scn.main = "yaml" THEN 1 ELSE 0
            IN  /\ Range(run[w].trail) \cap Reconciliation = {}
                /\ ~run[w].scn.abortFails =>
                      task[t].state = "FAILED" /\ Errors(log[t]) = parse + 1
                /\ run[w].scn.abortFails =>
                      task[t].state = "RUNNING" /\ Errors(log[t]) \in {parse, parse + 1}

\* a run ended by a YAML parse failure of meta/main.yml, with two ERRORs
C4_Witness ==
    \E w \in Workers :
        /\ ManifestFailed(w)
        /\ run[w].scn.main = "yaml"
        /\ Errors(log[run[w].tid]) = 2
        /\ task[run[w].tid].state = "FAILED"

\* the stage has run in the invocation of w
Done(w, stage) == \E i \in 1..Len(run[w].trail) : run[w].trail[i] = stage

\* the tokens of the manifest the pattern accepts, in the order encountered
Tokens(v) == IF v.kind = "list" THEN TokensOf(v.items) ELSE <<>>

ValidTokens(scn) == SelectSeq(Tokens(scn.categories) \o Tokens(scn.galaxy_tags), ReMatchAlnum)

First(seq, n) == [i \in 1..(IF Len(seq) < n THEN Len(seq) ELSE n) |-> seq[i]]

\* C5 as claimed: after the tags stage the tags of the Role are the valid
\* tokens, deduplicated, then capped to the first 20 distinct ones in the
\* order encountered; with at least 20 distinct valid tokens the Role has
\* exactly 20 tags.
C5_DedupThenCap ==
    \A w \in Workers :
        Done(w, "tags") =>
            LET valid == ValidTokens(run[w].scn)
            IN  /\ roleTags = Range(First(Distinct(valid), 20))
                /\ Cardinality(Range(valid)) >= 20 => Cardinality(roleTags) = 20

\* C5 as amended: after the tags stage the tags of the Role are the first
\* 20 valid tokens in the order encountered, duplicates among them counted
\* towards the 20, then deduplicated: at most 20 tags, whatever was stored
\* before.
C5_CapThenDedup ==
    \A w \in Workers :
        Done(w, "tags") =>
            /\ roleTags = Range(First(ValidTokens(run[w].scn), 20))
            /\ Cardinality(roleTags) <= 20

\* more than 20 valid tokens, 20 of them distinct, a duplicate among the
\* first 20: the Role ends with 19 tags, a stored tag not listed is gone
C5_Witness ==
    \E w \in Workers :
        /\ Done(w, "tags")
        /\ Len(ValidTokens(run[w].scn)) > 20
        /\ Cardinality(Range(ValidTokens(run[w].scn))) = 20
        /\ Cardinality(roleTags) = 19
        /\ run[w].before.tags \ roleTags # {}

\* C6: when two invocations follow one another with the same upstream data
\* and the first completes without abort, the second completes too and the
\* tags, platforms and dependencies of the Role after the second are those
\* after the first.
C6_Idempotent ==
    \A i \in 1..(Len(hist) - 1) :
        (hist[i].how = "done" /\ hist[i + 1].scn = hist[i].scn /\ hist[i + 1].tid # NoTask) =>
            /\ hist[i + 1].how = "done"
            /\ hist[i + 1].tags = hist[i].tags
            /\ hist[i + 1].platforms = hist[i].platforms
            /\ hist[i + 1].deps = hist[i].deps

\* two completed invocations on the same data, the first of which changed
\* the tags, the platforms and the dependencies stored before it
C6_Witness ==
    /\ Len(hist) = 2
    /\ hist[1].how = "done" /\ hist[2].how = "done"
    /\ hist[1].scn = hist[2].scn
    /\ hist[1].tags # {Word(2), Word(26)} /\ hist[1].tags # {}
    /\ hist[1].platforms # {} /\ hist[1].deps # {}
    /\ hist[2].tags = hist[1].tags

\* the text a dependency entry names the role by; <<>> when it has none
DepText(e) ==
    IF e.kind = "str" THEN e.val
    ELSE IF e.kind = "dict" /\ e.role.kind = "str" THEN e.role.val
    ELSE <<>>

Listed(scn) == {DepText(scn.dependencies.items[i]) : i \in 1..Len(scn.dependencies.items)}

Key(r) == r.namespace \o <<".">> \o r.name

\* C7: in the dependency reconciliation only associations whose key is not
\* in the manifest's list are removed; one whose key is listed but whose
\* lookup fails in this run is kept.
C7_FailedLookupKept ==
    \A w \in Workers :
        (Done(w, "dependencies") /\ run[w].scn.dependencies.kind = "list") =>
            \A d \in run[w].before.deps \ roleDeps : Key(d) \notin Listed(run[w].scn)

ValidPlatformEntry(e) ==
    /\ e.kind = "dict"
    /\ e.name.kind = "str" /\ e.name.val # <<>>
    /\ e.versions.kind \in {"absent", "list"}

ValidPlatforms(scn) ==
    /\ scn.platforms.kind = "list"
    /\ \A i \in 1..Len(scn.platforms.items) : ValidPlatformEntry(scn.platforms.items[i])

\* the Platform rows an entry asks for
Wanted(e) ==
    IF e.versions.kind = "absent" \/ \E i \in 1..Len(e.versions.items) : e.versions.items[i] = All
    THEN {p \in platformTable : p.name = e.name.val}
    ELSE {p \in platformTable :
            p.name = e.name.val /\ \E i \in 1..Len(e.versions.items) : e.versions.items[i] = p.release}

\* C8: for a valid platforms list, after the platforms stage the platforms
\* of the Role are the union of what the entries ask for; every association
\* stored before and outside this union is removed.
C8_PlatformUnion ==
    \A w \in Workers :
        (Done(w, "platforms") /\ ValidPlatforms(run[w].scn)) =>
            rolePlatforms =
                UNION {Wanted(run[w].scn.platforms.items[i]) : i \in 1..Len(run[w].scn.platforms.items)}

HasDot(s) == \E i \in 1..Len(s) : s[i] = "."

LastDot(s) == CHOOSE i \in 1..Len(s) : s[i] = "." /\ \A j \in (i + 1)..Len(s) : s[j] # "."

\* the role a dependency string names
Named(s) == [namespace |-> SubSeq(s, 1, LastDot(s) - 1),
             name |-> SubSeq(s, LastDot(s) + 1, Len(s))]

Dotted(scn) == {s \in Listed(scn) : HasDot(s)}

\* C9: a dependency string with a dot, given as a string or as the role
\* value of a mapping, is looked up by the name after its last dot and the
\* namespace before it: the role of that name and namespace is associated
\* when the lookup returns it, and no other role is newly associated.
C9_SplitAtLastDot ==
    \A w \in Workers :
        (Done(w, "dependencies") /\ run[w].scn.dependencies.kind = "list") =>
            /\ \A s \in Dotted(run[w].scn) :
                  (Named(s) \in roleTable /\ s \notin run[w].scn.lookupFails) =>
                      Named(s) \in roleDeps
            /\ \A r \in roleDeps \ run[w].before.deps :
                  \E s \in Dotted(run[w].scn) : r = Named(s)

\* a mapping entry a.b.c: the role c of namespace a.b is newly associated,
\* the role b.c of namespace a is not
C9_Witness ==
    \E w \in Workers :
        /\ Done(w, "dependencies")
        /\ run[w].scn.dependencies.kind = "list"
        /\ \E i \in 1..Len(run[w].scn.dependencies.items) :
              /\ run[w].scn.dependencies.items[i].kind = "dict"
              /\ DepText(run[w].scn.dependencies.items[i]) = <<"a", ".", "b", ".", "c">>
        /\ [namespace |-> <<"a", ".", "b">>, name |-> <<"c">>] \in roleDeps \ run[w].before.deps
        /\ [namespace |-> <<"a">>, name |-> <<"b", ".", "c">>] \notin roleDeps

\* the text of a description value: None is the empty text
TextOf(v) == IF v.kind = "str" THEN v.val ELSE <<>>

Trimmed(s) ==
    LET keep == {i \in 1..Len(s) : s[i] \notin {" ", "\n", "\t"}}
    IN  IF keep = {} THEN <<>>
        ELSE [i \in 1..(1 + (CHOOSE k \in keep : \A j \in keep : j <= k)
                          - (CHOOSE k \in keep : \A j \in keep : k <= j)) |->
                 s[i - 1 + (CHOOSE k \in keep : \A j \in keep : k <= j)]]

Diagnosed(w, id) ==
    Cardinality({i \in 1..Len(log[run[w].tid]) : log[run[w].tid][i].text.id = id})

\* what the description must be and what is logged for it, given the
\* value the description is taken from
DescriptionFrom(w, source) ==
    LET text == Trimmed(TextOf(source))
        stored == run[w].role.description
    IN  /\ stored.kind = "str"
        /\ Len(stored.val) <= 255
        /\ stored.val = First(text, 255)
        /\ Diagnosed(w, "description_too_long") = (IF Len(text) > 255 THEN 1 ELSE 0)
        /\ Diagnosed(w, "missing_description") = (IF Len(text) = 0 THEN 1 ELSE 0)

\* C10: after the validation stage the description is the manifest's, or
\* the repository's when the manifest has none (no galaxy_info, no
\* description key, or a null description), stripped and cut to its first
\* 255 characters with one WARNING and no ERROR when it was longer, one
\* ERROR and no WARNING when it is empty, no diagnostic otherwise.
C10_Description ==
    \A w \in Workers :
        run[w].pc = "stats" =>
            LET scn == GalaxyInfo(run[w].scn)
            IN  DescriptionFrom(w, IF scn.description.kind \in {"absent", "none"}
                                   THEN scn.repoDescription
                                   ELSE scn.description)

\* what the license must be and what is logged for it, given the text its
\* length is measured on
LicenseFrom(w, text) ==
    LET stored == run[w].role.license
    IN  /\ stored.kind = "str"
        /\ Len(stored.val) <= 50
        /\ stored.val = First(text, 50)
        /\ Diagnosed(w, "license_too_long") = (IF Len(text) > 50 THEN 1 ELSE 0)
        /\ Diagnosed(w, "license_missing") = (IF Len(text) = 0 THEN 1 ELSE 0)

\* C11 as claimed: after the validation stage the license is at most 50
\* characters; the lengths are those of the manifest's license as written:
\* absent or empty gives "" and one ERROR, longer than 50 gives its first 50
\* characters and one WARNING, 1 to 50 characters are stored unchanged
\* without a diagnostic.
C11_LicenseAsWritten ==
    \A w \in Workers :
        run[w].pc = "stats" => LicenseFrom(w, TextOf(GalaxyInfo(run[w].scn).license))

\* C11 as amended: the same, with the lengths those of the license after
\* its surrounding whitespace is stripped, and the stored value the
\* stripped one.
C11_LicenseStripped ==
    \A w \in Workers :
        run[w].pc = "stats" => LicenseFrom(w, Trimmed(TextOf(GalaxyInfo(run[w].scn).license)))

\* a license of more than 50 characters as written and fewer once stripped:
\* stored stripped, with no diagnostic
C11_Witness ==
    \E w \in Workers :
        /\ run[w].pc = "stats"
        /\ run[w].scn.galaxy_info
        /\ run[w].scn.license.kind = "str"
        /\ Len(run[w].scn.license.val) > 50
        /\ Len(run[w].role.license.val) < 50
        /\ run[w].role.license.val # <<>>
        /\ Diagnosed(w, "license_too_long") = 0

\* C12: a run whose manifest has no valid tag token and that no
\* fail_import_task and no uncaught exception ends leaves the Role without
\* tags from the tags stage on, and ends with an ERROR in the log and the
\* task FAILED, whatever the other stages log.
C12_NoTagsFails ==
    \A w \in Workers :
        (Active(w) \/ run[w].how = "done") /\ run[w].tid \in TaskIds
            /\ ValidTokens(GalaxyInfo(run[w].scn)) = <<>> =>
                /\ Done(w, "tags") => roleTags = {} /\ Errors(log[run[w].tid]) >= 1
                /\ Done(w, "finalize") => task[run[w].tid].state = "FAILED"

\* a manifest whose only diagnostic of severity ERROR is the one for the
\* missing tags: the run has completed, the task is FAILED, the tags stored
\* before are gone
C12_Witness ==
    \E w \in Workers :
        /\ run[w].how = "done"
        /\ ValidTokens(GalaxyInfo(run[w].scn)) = <<>>
        /\ run[w].before.tags # {}
        /\ roleTags = {}
        /\ Errors(log[run[w].tid]) = 1
        /\ task[run[w].tid].state = "FAILED"

\* C13: the log of a task only grows: every step leaves the entries it
\* found in place and unchanged, whether it is a stage logging messages,
\* fail_import_task after its rollback, the sweep or finalize; and no entry
\* has a text longer than 255 characters.
C13_AppendOnly ==
    [][\A t \in TaskIds :
          /\ Len(log[t]) <= Len(log'[t])
          /\ \A i \in 1..Len(log[t]) : log'[t][i] = log[t][i]
          /\ \A i \in 1..Len(log'[t]) : log'[t][i].text.len <= 255]_vars

\* a run that fail_import_task ended with a message of more than 255
\* characters: the entries logged before are there, the last is cut to 255
C13_Witness ==
    \E w \in Workers :
        /\ run[w].pc = "end" /\ run[w].how = "abort" /\ run[w].tid \in TaskIds
        /\ run[w].abort.len > 255
        /\ Len(log[run[w].tid]) >= 3
        /\ log[run[w].tid][1].type = "INFO"
        /\ log[run[w].tid][Len(log[run[w].tid])].text.len = 255

Names(versions) == {v.name : v \in versions}

\* the tags the loop of the invocation of w handles before the listing
\* raises, if it does
Handled(scn) ==
    IF scn.gitTagsRaise
    THEN {scn.gitTags[i].name : i \in 1..(IF scn.gitTagsRead < Len(scn.gitTags)
                                          THEN scn.gitTagsRead ELSE Len(scn.gitTags))}
    ELSE {scn.gitTags[i].name : i \in 1..Len(scn.gitTags)}

\* C14: no step takes a RoleVersion name away from the Role; the versions
\* stage leaves one RoleVersion for every name stored before and for every
\* tag it handled, and no other, also when the tag list is shorter than in
\* the run before or the listing raises part-way.
C14_VersionsKept ==
    [][/\ Names(roleVersions) \subseteq Names(roleVersions')
       /\ \A w \in Workers :
             (run[w].pc = "versions" /\ run'[w].pc # "versions") =>
                 /\ Names(roleVersions') = Names(roleVersions) \cup Handled(run[w].scn)
                 /\ \A u \in roleVersions', v \in roleVersions' : u.name = v.name => u = v]_vars

\* two completed runs, the second with an empty tag list after a first
\* with two tags: both versions are still stored
C14_Witness ==
    /\ Len(hist) = 2
    /\ hist[1].how = "done" /\ hist[2].how = "done"
    /\ Len(hist[1].scn.gitTags) = 2 /\ ~hist[1].scn.gitTagsRaise
    /\ hist[2].scn.gitTags = <<>>
    /\ Names(roleVersions) = {Word(1), Word(2)}

\* the entry of the sweep
TimedOut(e) == e.type = "ERROR" /\ e.text.id = "import_timed_out"

\* C15: a step of clear_stuck_imports changes a task only if the task is
\* PENDING and was created at least 7200 seconds earlier, and then makes it
\* FAILED with one timeout ERROR appended; a younger PENDING task and a task
\* that is RUNNING, SUCCESS or FAILED keep their state and their log: a run
\* in progress is never cancelled.
C15_SweepOnlyStuck ==
    [][sweep' # sweep =>
          \A t \in TaskIds :
              IF task[t].state = "PENDING" /\ task[t].created + 7200 <= now
              THEN \/ task'[t] = task[t] /\ log'[t] = log[t]
                   \/ /\ task'[t].state = "FAILED"
                      /\ Len(log'[t]) = Len(log[t]) + 1
                      /\ TimedOut(log'[t][Len(log'[t])])
                      /\ \A i \in 1..Len(log[t]) : log'[t][i] = log[t][i]
              ELSE task'[t] = task[t] /\ log'[t] = log[t]]_vars

\* the step in which the invocation of w returns
Returns(w) == run[w].pc # "end" /\ run'[w].pc = "end" /\ run'[w].how = "done"

\* C16: the index update is dispatched once, by the step in which a run
\* returns, and that run has finalized: the task is stored with the state
\* of the count and a finished time, the Role is stored valid and imported,
\* and the update carries the tags and platform names of the Role.  A step
\* in which fail_import_task (the failure of the save of finalize included)
\* or an uncaught exception ends a run dispatches nothing.
C16_IndexOnceAfterSave ==
    [][/\ index' # index => \E w \in Workers : Returns(w)
       /\ \A w \in Workers :
             Returns(w) =>
                 /\ Done(w, "finalize")
                 /\ \A i \in 1..Len(run[w].trail) : run[w].trail[i] # "index"
                 /\ task[run[w].tid].state = run[w].import_state
                 /\ task[run[w].tid].finished # NoTime
                 /\ roleRow.is_valid /\ roleRow.imported # NoTime
                 /\ index' = Append(index, [tid |-> run[w].tid, tags |-> roleTags,
                                            platforms |-> {p.name : p \in rolePlatforms}])
       /\ \A w \in Workers :
             (Active(w) /\ run'[w].pc = "end" /\ run'[w].how # "done") => index' = index]_vars

\* a run that completed with errors: the task is FAILED, the Role is
\* imported, one update is dispatched
C16_Witness ==
    \E w \in Workers :
        /\ run[w].pc = "end" /\ run[w].how = "done"
        /\ task[run[w].tid].state = "FAILED"
        /\ roleRow.is_valid
        /\ Len(index) = 1 /\ index[1].tid = run[w].tid
        /\ \E v \in Workers : run[v].pc = "end" /\ run[v].how = "abort"
                                /\ run[v].scn.saveFails

Failures == {"fetch", "b64", "yaml"}

\* C17: a fetch, base64 or YAML failure on meta/container.yml or
\* ansible/container.yml does not end the run: when the required manifest is
\* read and nothing else fails, the run goes through every reconciliation
\* stage to finalize and returns.
C17_OptionalNeverAborts ==
    \A w \in Workers :
        (/\ run[w].pc = "end" /\ run[w].tid \in TaskIds
         /\ run[w].scn.fatal = "none" /\ run[w].scn.main = "ok"
         /\ ~run[w].scn.statsRaise /\ ~run[w].scn.saveFails
         /\ (run[w].scn.container \in Failures \/ run[w].scn.ansibleContainer \in Failures)) =>
            /\ run[w].how = "done"
            /\ \A stage \in Reconciliation \cup {"finalize"} : Done(w, stage)

\* the tags a run's manifest asks for
DesiredTags(scn) == Range(First(ValidTokens(scn), MaxTags))

\* C18: when two runs for the same Role with different manifests have
\* overlapped and both have completed, the Role's tags are the desired set
\* of one of the two runs, whatever the interleaving of their add and
\* remove steps: never a mixture, never a set smaller than both.
C18_LastWriteWins ==
    (/\ Len(hist) = 2
     /\ \A i \in 1..2 : hist[i].how = "done"
     /\ hist[1].scn # hist[2].scn
     /\ \A w \in Workers : run[w].pc = "end")
        => \E i \in 1..2 : roleTags = DesiredTags(hist[i].scn)

\* C19: every task import_role has moved to RUNNING eventually reaches
\* SUCCESS or FAILED, whatever the collaborators return or raise: no run
\* ends with its task left RUNNING.
C19_RunningEnds ==
    \A t \in TaskIds :
        (task[t].state = "RUNNING") ~> (task[t].state \in {"SUCCESS", "FAILED"})

\* a dependency entry that is malformed: neither a string nor a mapping, a
\* mapping without a role, a string without a dot
Malformed(e) == e.kind \notin {"str", "dict"} \/ ~HasDot(DepText(e))

\* an entry that names a role the lookup of this run returns
Resolvable(e, scn) ==
    /\ ~Malformed(e)
    /\ Named(DepText(e)) \in roleTable
    /\ DepText(e) \notin scn.lookupFails

\* the ERROR entries the dependency loop has logged for the task of w
DependencyErrors(w) ==
    Diagnosed(w, "invalid_dependency") + Diagnosed(w, "dependency_not_found")
        + Diagnosed(w, "dependency_not_found_ns")

\* C20: each entry of the dependencies list that is malformed or names a
\* role that is not found gives exactly one ERROR, adds no association and
\* creates no Role, and the other entries are still associated.
C20_OneErrorPerBadEntry ==
    \A w \in Workers :
        (Done(w, "dependencies") /\ run[w].scn.dependencies.kind = "list") =>
            LET entries == run[w].scn.dependencies.items
                bad == {i \in 1..Len(entries) : ~Resolvable(entries[i], run[w].scn)}
                good == (1..Len(entries)) \ bad
            IN  /\ DependencyErrors(w) = Cardinality(bad)
                /\ roleTable = RoleRows
                /\ \A i \in good : Named(DepText(entries[i])) \in roleDeps
                /\ \A r \in roleDeps \ run[w].before.deps :
                      \E i \in good : r = Named(DepText(entries[i]))

\* an entry of the platforms list that is not a mapping, has no name, or
\* whose versions are not a list
Unusable(e) ==
    \/ e.kind # "dict"
    \/ e.name.kind # "str" \/ e.name.val = <<>>
    \/ e.versions.kind \notin {"absent", "list"}

\* the listed versions of an entry that have no Platform row, when the
\* entry does not ask for all
Unknown(e) ==
    IF Unusable(e) \/ e.versions.kind = "absent" \/ All \in Range(e.versions.items) THEN {}
    ELSE {i \in 1..Len(e.versions.items) :
            [name |-> e.name.val, release |-> e.versions.items[i]] \notin platformTable}

\* role.platforms after the platforms stage of w, had the manifest listed
\* these entries
PlatformsFrom(w, entries) ==
    Platforms([Acc(w) EXCEPT !.platforms = run[w].before.platforms],
              [run[w].scn EXCEPT !.platforms = List(entries)], platformTable).platforms

PlatformErrors(w) ==
    Diagnosed(w, "platform_not_dict") + Diagnosed(w, "platform_no_name")
        + Diagnosed(w, "platform_bad_versions") + Diagnosed(w, "invalid_platform")

\* C21 as claimed: an entry of the platforms list that is not a mapping,
\* has no name, has versions that are not a list, or lists a version with
\* no Platform row gives an ERROR and no association, and the platforms of
\* the Role are those the list without these entries gives.
C21_InvalidEntrySkipped ==
    \A w \in Workers :
        (Done(w, "platforms") /\ run[w].scn.platforms.kind = "list") =>
            LET entries == run[w].scn.platforms.items
                invalid == {i \in 1..Len(entries) : Unusable(entries[i]) \/ Unknown(entries[i]) # {}}
                kept == SelectSeq(entries, LAMBDA e : ~Unusable(e) /\ Unknown(e) = {})
            IN  /\ PlatformErrors(w) >= Cardinality(invalid)
                /\ rolePlatforms = PlatformsFrom(w, kept)

\* the entry without the listed versions that have no Platform row
Known(e) ==
    IF Unknown(e) = {} THEN e
    ELSE [e EXCEPT !.versions =
            List(SelectSeq(e.versions.items,
                           LAMBDA v : [name |-> e.name.val, release |-> v] \in platformTable))]

RECURSIVE Sum(_, _)
Sum(f, S) == IF S = {} THEN 0 ELSE LET x == CHOOSE x \in S : TRUE IN f[x] + Sum(f, S \ {x})

\* C21 as amended: an entry that is not a mapping, has no name or has
\* versions that are not a list gives one ERROR and no association; a
\* listed version with no Platform row gives one ERROR and no association,
\* and the other versions of its entry are still associated.  The
\* platforms of the Role are those the list gives without these entries
\* and these versions.
C21_InvalidVersionSkipped ==
    \A w \in Workers :
        (Done(w, "platforms") /\ run[w].scn.platforms.kind = "list") =>
            LET entries == run[w].scn.platforms.items
                unusable == {i \in 1..Len(entries) : Unusable(entries[i])}
                unknown == [i \in 1..Len(entries) |-> Cardinality(Unknown(entries[i]))]
                usable == SelectSeq(entries, LAMBDA e : ~Unusable(e))
                kept == [i \in 1..Len(usable) |-> Known(usable[i])]
            IN  /\ PlatformErrors(w) = Cardinality(unusable) + Sum(unknown, 1..Len(entries))
                /\ rolePlatforms = PlatformsFrom(w, kept)

\* an entry lists a version that has a row and one that has none: the
\* first is associated, the second is reported, and an entry that is not a
\* mapping is reported beside it
C21_Witness ==
    \E w \in Workers :
        /\ Done(w, "platforms")
        /\ run[w].scn.platforms.kind = "list"
        /\ Len(run[w].scn.platforms.items) = 2
        /\ run[w].scn.platforms.items[1] = PlatformEntry(Str(<<"e">>), List(<<<<"7">>, <<"9">>>>))
        /\ run[w].scn.platforms.items[2].kind = "str"
        /\ [name |-> <<"e">>, release |-> <<"7">>] \in rolePlatforms \ run[w].before.platforms
        /\ PlatformErrors(w) = 2

\* the run of w has returned from import_role and its role is stored
Completed(w) == run[w].pc = "end" /\ run[w].how = "done"

\* the kind and the descriptor of the stored role are those of before the run
KindKept(w) ==
    /\ roleRow.role_type = run[w].before.row.role_type
    /\ roleRow.container_yml = run[w].before.row.container_yml

\* what the detection leaves, given which of the two files count as there
KindBy(w, meta, ansible) ==
    /\ (meta /\ ~ansible) =>
          roleRow.role_type = "CON" /\ roleRow.container_yml = Str(<<"m">>)
    /\ (ansible /\ ~meta) =>
          roleRow.role_type = "APP" /\ roleRow.container_yml = Str(<<"a">>)
    /\ (meta /\ ansible) => KindKept(w)
    /\ (~meta /\ ~ansible) => KindKept(w)
    /\ Diagnosed(w, "two_container_yml") = (IF meta /\ ansible THEN 1 ELSE 0)

C23_NamespaceMirrored ==
    [][/\ \A n \in namespaceTable : \E m \in namespaceTable' : m.namespace = n.namespace
       /\ \A w \in Workers :
             (run[w].pc = "connect" /\ run'[w].pc # "connect"
                 /\ NamespaceUpdated(run[w].scn)) =>
                 LET a == Account(run[w].scn.repo)
                 IN  {n \in namespaceTable' : n.namespace = a.login} = {NewNamespace(a)}]_vars

\* C24: a task whose state is SUCCESS or FAILED has its finished time set,
\* whether finalize, fail_import_task or the sweep made it terminal.
C24_TerminalHasFinished ==
    \A t \in TaskIds :
        task[t].state \in {"SUCCESS", "FAILED"} => task[t].finished # NoTime

\* C25: a task whose stored state is SUCCESS has no ERROR entry in its log,
\* also when a sweep runs beside the import of the task.
C25_SuccessHasNoError ==
    \A t \in TaskIds : task[t].state = "SUCCESS" => Errors(log[t]) = 0

NoList(v) == v.kind \in {"absent", "none", "str", "int"}

\* C27: when the platforms key, respectively the dependencies key, is
\* absent, a string or not iterable, the stage logs exactly one ERROR and
\* the platforms, respectively the dependencies, of the Role are those of
\* before the run: nothing is added and nothing removed.
C27_NoListKeepsAssociations ==
    \A w \in Workers :
        /\ (Done(w, "platforms") /\ NoList(GalaxyInfo(run[w].scn).platforms)) =>
              /\ rolePlatforms = run[w].before.platforms
              /\ Diagnosed(w, "platforms_missing") + Diagnosed(w, "platforms_not_list")
                    + PlatformErrors(w) = 1
        /\ (Done(w, "dependencies") /\ NoList(run[w].scn.dependencies)) =>
              /\ roleDeps = run[w].before.deps
              /\ Diagnosed(w, "dependencies_missing") + Diagnosed(w, "dependencies_not_list")
                    + DependencyErrors(w) = 1

\* platforms is a string and dependencies a number: both stages have run
\* and the stored platforms and dependencies are still there
C27_Witness ==
    \E w \in Workers :
        /\ Done(w, "dependencies")
        /\ run[w].scn.platforms = Str(<<"e">>) /\ run[w].scn.dependencies = Number(5)
        /\ Cardinality(rolePlatforms) = 2 /\ Cardinality(roleDeps) = 1
        /\ Diagnosed(w, "platforms_not_list") = 1 /\ Diagnosed(w, "dependencies_not_list") = 1

\* the terminal-status entries of a log
StatusEntries(entries) == {i \in 1..Len(entries) : entries[i].text.id = "status"}

\* the runs of a task that have logged or may yet log: those that ended
\* and those under way
RunsOf(t) ==
    Cardinality({i \in 1..Len(hist) : hist[i].tid = t})
        + Cardinality({w \in Workers : Active(w) /\ run[w].tid = t})

\* C28: the log of a task holds at most one terminal-status entry per run,
\* of severity SUCCESS or FAILED, and once the one run of a task has ended
\* the stored state of the task is the severity of that entry, also when
\* the save of finalize fails.
C28_StatusIsState ==
    \A t \in TaskIds :
        LET status == StatusEntries(log[t])
        IN  /\ \A i \in status : log[t][i].type \in {"SUCCESS", "FAILED"}
            /\ Cardinality(status) <= RunsOf(t)
            /\ (/\ status # {}
                /\ RunsOf(t) = 1
                /\ \A w \in Workers : Active(w) => run[w].tid # t) =>
                  \A i \in status : task[t].state = log[t][i].type

====
